---- MODULE Spec2Model ----
(***************************************************************************)
(* The scene hierarchy of TheSolution CAD: class Solution of               *)
(* "Base Solution/python/base_solution.py".  Every node has a parent       *)
(* reference and an ordered child list; add_child and remove_child are the *)
(* only operations that write them, and get_root, get_ancestors and        *)
(* get_descendants walk them.                                              *)
(***************************************************************************)
EXTENDS Integers, Sequences, FiniteSets, TLC

\* Number of Solution objects that exist (constructed once, never destroyed).
NumNodes == 3

\* The objects; Python identity is the index.
Node == 1..NumNodes

\* Python's None as a value of the fields parent / return values.
None == 0

VARIABLES
    parent,     \* parent[n]   : n.parent, a node or None
    children,   \* children[n] : n.children, a list of nodes
    lastCall,   \* the most recent call: operation, receiver, argument, and
                \* the two values add_child/remove_child read on their way:
                \* the membership test and the parent the child was taken from
    ret,        \* what the most recent call gave back to its caller
    alive,      \* the Solution objects constructed so far
    coordinate, \* coordinate[n] : n.coordinate, a reference to a coordinate object
    coords,     \* coords[k]     : the six fields of coordinate object k
    cret,       \* the SolutionCoordinate the most recent call returned, or NoCoord
    name,       \* name[n]    : n.name
    ident,      \* ident[n]   : n.id
    visible,    \* visible[n] : n.visible
    locked,     \* locked[n]  : n.locked
    properties, \* properties[n] : the dict object n.properties refers to
    props,      \* props[d]   : the content of dict d, key -> reference to a value object
    objs,       \* objs[r]    : the content of value object r (a list)
    cloneOf,    \* cloneOf[n] : the node n was copied from by copy(), or None
    threads,    \* threads[t] : the call thread t is running and its position in it
    project,    \* the project dictionary at hand: key -> Python value
    logged,     \* the messages dict_to_project has sent to the logger
    object_counter,   \* the window's object_counter
    objects,          \* the window's objects dictionary: id -> object_data
    creation_threads, \* the window's creation_threads list, each with its object_data
    events,     \* the signals emitted by worker threads and not yet delivered
    object_tree,      \* the top-level items of the window's object_tree
    deleted     \* the ids delete_selected_object has removed from objects

\* the hierarchy fields and the record of the latest call
hierarchyVars == <<parent, children, lastCall, ret>>

\* the coordinate objects of the nodes
coordVars == <<coordinate, coords>>

\* the other fields of the nodes, and the objects their properties hold
fieldVars == <<name, ident, visible, locked, properties, props, objs>>

\* the project dictionary and the window of the 3D-Solution application
appVars == <<project, logged, object_counter, objects, creation_threads, events,
             object_tree, deleted>>

\* what the hierarchy methods never write
beyondHierarchy == <<alive, coordVars, fieldVars, cloneOf, threads, appVars>>

vars == <<hierarchyVars, beyondHierarchy, cret>>

----------------------------------------------------------------------------
\* Python list primitives used by the code.

\* x in lst
InList(lst, x) == \E i \in 1..Len(lst) : lst[i] = x

\* lst.count(x)
Count(lst, x) == Cardinality({i \in 1..Len(lst) : lst[i] = x})

\* index of the first occurrence of x in lst (x is in lst)
FirstIndex(lst, x) ==
    CHOOSE i \in 1..Len(lst) : lst[i] = x /\ \A j \in 1..(i - 1) : lst[j] # x

\* lst.remove(x): drops the first occurrence of x (x is in lst)
ListRemove(lst, x) ==
    LET k == FirstIndex(lst, x)
    IN  SubSeq(lst, 1, k - 1) \o SubSeq(lst, k + 1, Len(lst))

\* lst with every occurrence of x left out, order kept
RECURSIVE Without(_, _)
Without(lst, x) ==
    IF lst = <<>> THEN <<>>
    ELSE IF Head(lst) = x THEN Without(Tail(lst), x)
         ELSE <<Head(lst)>> \o Without(Tail(lst), x)

----------------------------------------------------------------------------
\* The float fields of a coordinate, as exact fractions <<numerator,
\* denominator>> in lowest terms with a positive denominator.  Rounding of
\* the machine floats is not modelled.

RECURSIVE GCD(_, _)
GCD(m, n) == IF n = 0 THEN m ELSE GCD(n, m % n)

Abs(i) == IF i < 0 THEN -i ELSE i

\* n/d in lowest terms (d # 0)
Frac(n, d) ==
    LET g == GCD(Abs(n), Abs(d))
        sgn == IF d < 0 THEN -1 ELSE 1
    IN  <<sgn * (n \div g), sgn * (d \div g)>>

\* float(i) for an integer i
Float(i) == <<i, 1>>

\* u + v and u - v, over the least common denominator
FAdd(u, v) ==
    LET g == GCD(u[2], v[2])
    IN  Frac(u[1] * (v[2] \div g) + v[1] * (u[2] \div g), (u[2] \div g) * v[2])
FSub(u, v) ==
    LET g == GCD(u[2], v[2])
    IN  Frac(u[1] * (v[2] \div g) - v[1] * (u[2] \div g), (u[2] \div g) * v[2])
FMul(u, v) == Frac(u[1] * v[1], u[2] * v[2])
\* u / v for v # 0
FDiv(u, v) == Frac(u[1] * v[2], u[2] * v[1])

\* SolutionCoordinate(x, y, z, a, b, c)
SolutionCoordinate(x, y, z, a, b, c) ==
    [x |-> x, y |-> y, z |-> z, a |-> a, b |-> b, c |-> c]

\* SolutionCoordinate(x, y, z, a, b, c) with float() of six integers
Coord6(x, y, z, a, b, c) ==
    SolutionCoordinate(Float(x), Float(y), Float(z), Float(a), Float(b), Float(c))

\* SolutionCoordinate(): the defaults 0, 0, 0, 1, 1, 1
DefaultCoordinate ==
    SolutionCoordinate(Float(0), Float(0), Float(0), Float(1), Float(1), Float(1))

\* no coordinate was returned
NoCoord ==
    SolutionCoordinate(<<0, 0>>, <<0, 0>>, <<0, 0>>, <<0, 0>>, <<0, 0>>, <<0, 0>>)

\* SolutionCoordinate.copy(): a new object with the same six fields
CoordinateCopy(k) ==
    SolutionCoordinate(k.x, k.y, k.z, k.a, k.b, k.c)

----------------------------------------------------------------------------
\* Results of a call.

Returned(n, lst) == [status |-> "ok", node |-> n, list |-> lst]
ReturnNone       == Returned(None, <<>>)
\* the call returned the value v (a bool, a float)
ReturnedValue(v) == [status |-> "ok", node |-> None, list |-> <<v>>]
\* the call raised the named exception
Raised(exc)      == [status |-> exc, node |-> None, list |-> <<>>]
\* the call never comes back (a while loop that cannot leave)
NoReturn         == [status |-> "noreturn", node |-> None, list |-> <<>>]

Call(op, self, child, found, from) ==
    [op |-> op, self |-> self, child |-> child, found |-> found, detached |-> from]

\* a call whose argument is kept as given
CallWith(op, self, arg) ==
    [op |-> op, self |-> self, child |-> None, found |-> FALSE, detached |-> None,
     arg |-> arg]

----------------------------------------------------------------------------
\* Keys the property bags are used with.
PropKeys == {"color"}

\* Solution.__init__ for the fields beside the hierarchy: the name given,
\* a fresh id, visible, not locked, no properties.
FreshFields(nodes) ==
    /\ name = [n \in nodes |-> n]
    /\ ident = [n \in nodes |-> n]
    /\ visible = [n \in nodes |-> TRUE]
    /\ locked = [n \in nodes |-> FALSE]
    /\ properties = [n \in nodes |-> n]
    /\ props = [n \in nodes |-> [k \in PropKeys |-> None]]
    /\ objs = <<>>
    /\ cloneOf = [n \in nodes |-> None]
    /\ threads = <<>>

\* no project dictionary has been made; the window as its __init__ leaves it
NoApplication ==
    /\ project = <<>>
    /\ logged = <<>>
    /\ object_counter = 0
    /\ objects = <<>>
    /\ creation_threads = <<>>
    /\ events = <<>>
    /\ object_tree = <<>>
    /\ deleted = {}

\* Solution.__init__: no parent, no children.
Init ==
    /\ parent = [n \in Node |-> None]
    /\ children = [n \in Node |-> <<>>]
    /\ lastCall = Call("__init__", None, None, FALSE, None)
    /\ ret = ReturnNone
    /\ alive = Node
    /\ coordinate = [n \in Node |-> n]
    /\ coords = [n \in Node |-> DefaultCoordinate]
    /\ cret = NoCoord
    /\ FreshFields(Node)
    /\ NoApplication

\* add_child that leaves the child in its former parent's list (the
\* removal at the re-parenting step of add_child is missing)
AddChild_KeepsOldList(self, child) ==
    /\ UNCHANGED beyondHierarchy
    /\ cret' = NoCoord
    /\ LET found == InList(children[self], child)
       IN  IF found
           THEN /\ UNCHANGED <<parent, children>>
                /\ lastCall' = Call("add_child", self, child, TRUE, None)
                /\ ret' = ReturnNone
           ELSE /\ parent' = [parent EXCEPT ![child] = self]
                /\ children' = [children EXCEPT ![self] = Append(@, child)]
                /\ lastCall' = Call("add_child", self, child, FALSE, parent[child])
                /\ ret' = ReturnNone

\* add_child that appends the child without setting child.parent
AddChild_NoParentSet(self, child) ==
    /\ UNCHANGED beyondHierarchy
    /\ cret' = NoCoord
    /\ LET found == InList(children[self], child)
           old   == parent[child]
       IN  IF found
           THEN /\ UNCHANGED <<parent, children>>
                /\ lastCall' = Call("add_child", self, child, TRUE, None)
                /\ ret' = ReturnNone
           ELSE /\ UNCHANGED parent
                /\ children' = [children EXCEPT ![self] = Append(@, child)]
                /\ lastCall' = Call("add_child", self, child, FALSE, None)
                /\ ret' = ReturnNone

\* add_child that puts the child at the front of the list (insert(0, child)
\* for append(child))
AddChild_Prepends(self, child) ==
    /\ UNCHANGED beyondHierarchy
    /\ cret' = NoCoord
    /\ LET found == InList(children[self], child)
           old   == parent[child]
       IN  IF found
           THEN /\ UNCHANGED <<parent, children>>
                /\ lastCall' = Call("add_child", self, child, TRUE, None)
                /\ ret' = ReturnNone
           ELSE LET detached == IF old # None /\ InList(children[old], child)
                                THEN [children EXCEPT ![old] = ListRemove(@, child)]
                                ELSE children
                IN  /\ parent' = [parent EXCEPT ![child] = self]
                    /\ children' = [detached EXCEPT ![self] = <<child>> \o @]
                    /\ lastCall' = Call("add_child", self, child, FALSE, old)
                    /\ ret' = ReturnNone

\* add_child without the early return for a node that is already a child:
\* the child is taken out of its parent's list and appended again
AddChild_NoEarlyReturn(self, child) ==
    /\ UNCHANGED beyondHierarchy
    /\ cret' = NoCoord
    /\ LET found == InList(children[self], child)
           old   == parent[child]
           detached == IF old # None /\ InList(children[old], child)
                       THEN [children EXCEPT ![old] = ListRemove(@, child)]
                       ELSE children
       IN  /\ parent' = [parent EXCEPT ![child] = self]
           /\ children' = [detached EXCEPT ![self] = Append(@, child)]
           /\ lastCall' = Call("add_child", self, child, found, old)
           /\ ret' = ReturnNone

\* add_child that refuses a child whose subtree holds self (a cycle guard
\* the source does not have)
AddChild_RejectsCycle(self, child) ==
    /\ UNCHANGED beyondHierarchy
    /\ cret' = NoCoord
    /\ LET found == InList(children[self], child)
           old   == parent[child]
           RECURSIVE Under(_)
           Under(S) ==
               LET T == S \cup UNION {{children[x][i] : i \in 1..Len(children[x])} : x \in S}
               IN  IF T = S THEN S ELSE Under(T)
       IN  IF found \/ self \in Under({child})
           THEN /\ UNCHANGED <<parent, children>>
                /\ lastCall' = Call("add_child", self, child, found, None)
                /\ ret' = ReturnNone
           ELSE LET detached == IF old # None /\ InList(children[old], child)
                                THEN [children EXCEPT ![old] = ListRemove(@, child)]
                                ELSE children
                IN  /\ parent' = [parent EXCEPT ![child] = self]
                    /\ children' = [detached EXCEPT ![self] = Append(@, child)]
                    /\ lastCall' = Call("add_child", self, child, FALSE, old)
                    /\ ret' = ReturnNone

\* self.add_child(child)
AddChild(self, child) ==
    /\ UNCHANGED beyondHierarchy
    /\ cret' = NoCoord
    /\ LET found == InList(children[self], child)
           old   == parent[child]
       IN  IF found
           THEN \* already a direct child: return
                /\ UNCHANGED <<parent, children>>
                /\ lastCall' = Call("add_child", self, child, TRUE, None)
                /\ ret' = ReturnNone
           ELSE IF old # None /\ ~InList(children[old], child)
           THEN \* child.parent.children.remove(child) raises ValueError
                /\ UNCHANGED <<parent, children>>
                /\ lastCall' = Call("add_child", self, child, FALSE, None)
                /\ ret' = Raised("ValueError")
           ELSE LET detached == IF old # None
                                THEN [children EXCEPT ![old] = ListRemove(@, child)]
                                ELSE children
                IN  /\ parent' = [parent EXCEPT ![child] = self]
                    /\ children' = [detached EXCEPT ![self] = Append(@, child)]
                    /\ lastCall' = Call("add_child", self, child, FALSE, old)
                    /\ ret' = ReturnNone

\* remove_child that takes the child out of the list and leaves
\* child.parent as it was
RemoveChild_KeepsParent(self, child) ==
    /\ UNCHANGED beyondHierarchy
    /\ cret' = NoCoord
    /\ LET found == InList(children[self], child)
       IN  /\ IF found
              THEN /\ children' = [children EXCEPT ![self] = ListRemove(@, child)]
                   /\ UNCHANGED parent
              ELSE UNCHANGED <<parent, children>>
           /\ lastCall' = Call("remove_child", self, child, found, None)
           /\ ret' = ReturnNone

\* remove_child that clears child.parent outside the membership test
RemoveChild_AlwaysClearsParent(self, child) ==
    /\ UNCHANGED beyondHierarchy
    /\ cret' = NoCoord
    /\ LET found == InList(children[self], child)
       IN  /\ IF found
              THEN children' = [children EXCEPT ![self] = ListRemove(@, child)]
              ELSE UNCHANGED children
           /\ parent' = [parent EXCEPT ![child] = None]
           /\ lastCall' = Call("remove_child", self, child, found, None)
           /\ ret' = ReturnNone

\* self.remove_child(child)
RemoveChild(self, child) ==
    /\ UNCHANGED beyondHierarchy
    /\ cret' = NoCoord
    /\ LET found == InList(children[self], child)
       IN  /\ IF found
              THEN /\ children' = [children EXCEPT ![self] = ListRemove(@, child)]
                   /\ parent' = [parent EXCEPT ![child] = None]
              ELSE UNCHANGED <<parent, children>>
           /\ lastCall' = Call("remove_child", self, child, found, None)
           /\ ret' = ReturnNone

\* self.get_children(): a copy of the child list
GetChildren(self) == children[self]

\* self.get_parent()
GetParent(self) == parent[self]

\* The loop of get_root: "while current.parent: current = current.parent".
\* A walk that has made NumNodes steps and still finds a parent has visited
\* some node twice, so the loop never leaves.
RECURSIVE RootWalk(_, _)
RootWalk(current, steps) ==
    IF parent[current] = None THEN Returned(current, <<>>)
    ELSE IF steps = NumNodes THEN NoReturn
    ELSE RootWalk(parent[current], steps + 1)

\* self.get_root()
GetRoot(self) == RootWalk(self, 0)

\* The loop of get_ancestors: "while current: append; current = current.parent".
RECURSIVE AncestorWalk(_, _)
AncestorWalk(current, ancestors) ==
    IF current = None THEN Returned(None, ancestors)
    ELSE IF Len(ancestors) = NumNodes THEN NoReturn
    ELSE AncestorWalk(parent[current], Append(ancestors, current))

\* self.get_ancestors()
GetAncestors(self) == AncestorWalk(parent[self], <<>>)

\* self.get_descendants(): for each child, the child and then its own
\* descendants.  depth counts the nested calls; more than NumNodes nested
\* calls means a node is below itself, and the recursion ends in Python's
\* RecursionError.
RECURSIVE Descend(_, _), DescendLoop(_, _, _)
Descend(self, depth) ==
    IF depth > NumNodes THEN Raised("RecursionError")
    ELSE DescendLoop(children[self], <<>>, depth)
DescendLoop(rest, descendants, depth) ==
    IF rest = <<>> THEN Returned(None, descendants)
    ELSE LET child == Head(rest)
             below == Descend(child, depth + 1)
         IN  IF below.status # "ok" THEN below
             ELSE DescendLoop(Tail(rest), (descendants \o <<child>>) \o below.list, depth)

GetDescendants(self) == Descend(self, 1)

\* The getters as calls: they write nothing but their result.
GetRootCall(self) ==
    /\ UNCHANGED <<parent, children>>
    /\ UNCHANGED beyondHierarchy
    /\ cret' = NoCoord
    /\ lastCall' = Call("get_root", self, None, FALSE, None)
    /\ ret' = GetRoot(self)

GetAncestorsCall(self) ==
    /\ UNCHANGED <<parent, children>>
    /\ UNCHANGED beyondHierarchy
    /\ cret' = NoCoord
    /\ lastCall' = Call("get_ancestors", self, None, FALSE, None)
    /\ ret' = GetAncestors(self)

GetDescendantsCall(self) ==
    /\ UNCHANGED <<parent, children>>
    /\ UNCHANGED beyondHierarchy
    /\ cret' = NoCoord
    /\ lastCall' = Call("get_descendants", self, None, FALSE, None)
    /\ ret' = GetDescendants(self)

Next ==
    \/ \E self \in Node, child \in Node : AddChild(self, child)
    \/ \E self \in Node, child \in Node : RemoveChild(self, child)
    \/ \E self \in Node : GetRootCall(self)
    \/ \E self \in Node : GetAncestorsCall(self)
    \/ \E self \in Node : GetDescendantsCall(self)

Spec == Init /\ [][Next]_vars

----------------------------------------------------------------------------
\* The local coordinates of the nodes: move_to, translate, set_orientation
\* and get_absolute_coordinate.

\* Number of nodes of the hierarchies whose coordinates are followed.
NumCoordNodes == 2

\* Largest position field translate may reach.
MaxCoord == 6

\* Arguments the calls are made with.
Positions == {<<1, 2, 3>>, <<4, 5, 6>>}
Deltas == {<<3, 3, 3>>}
Orientations == {<<1, 1, 1>>, <<2, 2, 2>>}

\* the coordinate object of node n
Local(n) == coords[coordinate[n]]

\* move_to that leaves a locked node where it is
MoveTo_RespectsLock(self, x, y, z) ==
    /\ coords' = IF locked[self] THEN coords
                 ELSE [coords EXCEPT ![coordinate[self]] =
                          [@ EXCEPT !.x = Float(x), !.y = Float(y), !.z = Float(z)]]
    /\ lastCall' = CallWith("move_to", self, <<x, y, z>>)
    /\ ret' = ReturnNone
    /\ cret' = NoCoord
    /\ UNCHANGED <<parent, children, alive, coordinate, fieldVars, cloneOf, threads, appVars>>

\* self.move_to(x, y, z)
MoveTo(self, x, y, z) ==
    /\ coords' = [coords EXCEPT ![coordinate[self]] =
                      [@ EXCEPT !.x = Float(x), !.y = Float(y), !.z = Float(z)]]
    /\ lastCall' = CallWith("move_to", self, <<x, y, z>>)
    /\ ret' = ReturnNone
    /\ cret' = NoCoord
    /\ UNCHANGED <<parent, children, alive, coordinate, fieldVars, cloneOf, threads, appVars>>

\* self.translate(dx, dy, dz)
Translate(self, dx, dy, dz) ==
    /\ coords' = [coords EXCEPT ![coordinate[self]] =
                      [@ EXCEPT !.x = FAdd(@, Float(dx)),
                                !.y = FAdd(@, Float(dy)),
                                !.z = FAdd(@, Float(dz))]]
    /\ lastCall' = CallWith("translate", self, <<dx, dy, dz>>)
    /\ ret' = ReturnNone
    /\ cret' = NoCoord
    /\ UNCHANGED <<parent, children, alive, coordinate, fieldVars, cloneOf, threads, appVars>>

\* set_orientation that puts the node back at the origin
SetOrientation_ResetsPosition(self, a, b, c) ==
    /\ coords' = [coords EXCEPT ![coordinate[self]] =
                      SolutionCoordinate(Float(0), Float(0), Float(0),
                                         Float(a), Float(b), Float(c))]
    /\ lastCall' = CallWith("set_orientation", self, <<a, b, c>>)
    /\ ret' = ReturnNone
    /\ cret' = NoCoord
    /\ UNCHANGED <<parent, children, alive, coordinate, fieldVars, cloneOf, threads, appVars>>

\* self.set_orientation(a, b, c)
SetOrientation(self, a, b, c) ==
    /\ coords' = [coords EXCEPT ![coordinate[self]] =
                      [@ EXCEPT !.a = Float(a), !.b = Float(b), !.c = Float(c)]]
    /\ lastCall' = CallWith("set_orientation", self, <<a, b, c>>)
    /\ ret' = ReturnNone
    /\ cret' = NoCoord
    /\ UNCHANGED <<parent, children, alive, coordinate, fieldVars, cloneOf, threads, appVars>>

\* _combine_coordinates that takes the orientation of the child alone
CombineCoordinates_ChildOrientation(parentCoord, childCoord) ==
    SolutionCoordinate(FAdd(parentCoord.x, childCoord.x),
                       FAdd(parentCoord.y, childCoord.y),
                       FAdd(parentCoord.z, childCoord.z),
                       childCoord.a, childCoord.b, childCoord.c)

\* self._combine_coordinates(parent, child)
CombineCoordinates(parentCoord, childCoord) ==
    SolutionCoordinate(FAdd(parentCoord.x, childCoord.x),
                       FAdd(parentCoord.y, childCoord.y),
                       FAdd(parentCoord.z, childCoord.z),
                       FMul(parentCoord.a, childCoord.a),
                       FMul(parentCoord.b, childCoord.b),
                       FMul(parentCoord.c, childCoord.c))

CoordResult(status, k) == [status |-> status, coord |-> k]

\* The recursion of get_absolute_coordinate along the parent references.
\* depth counts the nested calls; more than NumNodes of them means the
\* chain comes back to a node, and the recursion ends in RecursionError.
RECURSIVE AbsoluteWalk(_, _)
AbsoluteWalk(self, depth) ==
    IF depth > NumNodes THEN CoordResult("RecursionError", NoCoord)
    ELSE IF parent[self] = None THEN CoordResult("ok", CoordinateCopy(Local(self)))
    ELSE LET parentCoord == AbsoluteWalk(parent[self], depth + 1)
         IN  IF parentCoord.status # "ok" THEN parentCoord
             ELSE CoordResult("ok", CombineCoordinates(parentCoord.coord, Local(self)))

\* self.get_absolute_coordinate()
GetAbsoluteCoordinate(self) == AbsoluteWalk(self, 1)

\* get_absolute_coordinate that stores its result in the node's coordinate
GetAbsoluteCoordinateCall_WritesBack(self) ==
    LET result == GetAbsoluteCoordinate(self)
    IN  /\ lastCall' = Call("get_absolute_coordinate", self, None, FALSE, None)
        /\ ret' = IF result.status = "ok" THEN ReturnNone ELSE Raised(result.status)
        /\ cret' = result.coord
        /\ coords' = IF result.status = "ok"
                     THEN [coords EXCEPT ![coordinate[self]] = result.coord]
                     ELSE coords
        /\ UNCHANGED <<parent, children, alive, coordinate, fieldVars, cloneOf, threads, appVars>>

GetAbsoluteCoordinateCall(self) ==
    LET result == GetAbsoluteCoordinate(self)
    IN  /\ lastCall' = Call("get_absolute_coordinate", self, None, FALSE, None)
        /\ ret' = IF result.status = "ok" THEN ReturnNone ELSE Raised(result.status)
        /\ cret' = result.coord
        /\ UNCHANGED <<parent, children, alive, coordinate, coords, fieldVars, cloneOf, threads, appVars>>

\* Nodes constructed as Solution(name, SolutionCoordinate(1, 2, 3)).
CoordInit ==
    /\ parent = [n \in Node |-> None]
    /\ children = [n \in Node |-> <<>>]
    /\ lastCall = Call("__init__", None, None, FALSE, None)
    /\ ret = ReturnNone
    /\ alive = 1..NumCoordNodes
    /\ coordinate = [n \in Node |-> n]
    /\ coords = [n \in Node |->
                    SolutionCoordinate(Float(1), Float(2), Float(3),
                                       Float(1), Float(1), Float(1))]
    /\ cret = NoCoord
    /\ FreshFields(Node)
    /\ NoApplication

CoordNext ==
    \/ \E self \in alive, child \in alive : AddChild(self, child)
    \/ \E self \in alive, child \in alive : RemoveChild(self, child)
    \/ \E self \in alive, p \in Positions : MoveTo(self, p[1], p[2], p[3])
    \/ \E self \in alive, d \in Deltas :
          /\ \A f \in {"x", "y", "z"} : Local(self)[f][1] + d[1] <= MaxCoord * Local(self)[f][2]
          /\ Translate(self, d[1], d[2], d[3])
    \/ \E self \in alive, o \in Orientations : SetOrientation(self, o[1], o[2], o[3])
    \/ \E self \in alive : GetAbsoluteCoordinateCall(self)

SpecCoord == CoordInit /\ [][CoordNext]_vars

----------------------------------------------------------------------------
\* SolutionCoordinate arithmetic on coordinate objects that belong to no
\* node.  coords[i] are the operand objects; cret is the object the last
\* operator call returned.

\* number of operand objects
NumOperands == 2

OperandPositions == {<<1, 2, 3>>, <<4, 5, 6>>}
OperandOrientations == {<<1, 1, 1>>, <<2, 3, 4>>, <<0, 2, 1>>, <<0, 0, 0>>}

\* u < v, compared over the least common denominator
FLess(u, v) ==
    LET g == GCD(u[2], v[2])
    IN  u[1] * (v[2] \div g) < v[1] * (u[2] \div g)

\* abs(u)
FAbs(u) == <<Abs(u[1]), u[2]>>

\* the comparison tolerance of __eq__, 1e-6
Tolerance == <<1, 1000000>>

\* self + other with the orientations added like the positions
CoordAdd_SumsOrientation(self, other) ==
    SolutionCoordinate(FAdd(self.x, other.x), FAdd(self.y, other.y), FAdd(self.z, other.z),
                       FAdd(self.a, other.a), FAdd(self.b, other.b), FAdd(self.c, other.c))

\* SolutionCoordinate.__add__
CoordAdd(self, other) ==
    SolutionCoordinate(FAdd(self.x, other.x), FAdd(self.y, other.y), FAdd(self.z, other.z),
                       FMul(self.a, other.a), FMul(self.b, other.b), FMul(self.c, other.c))

\* self - other whose guard falls back to the divisor (0) for the dividend
CoordSub_FallsBackToDivisor(self, other) ==
    SolutionCoordinate(FSub(self.x, other.x), FSub(self.y, other.y), FSub(self.z, other.z),
                       IF other.a # Float(0) THEN FDiv(self.a, other.a) ELSE other.a,
                       IF other.b # Float(0) THEN FDiv(self.b, other.b) ELSE other.b,
                       IF other.c # Float(0) THEN FDiv(self.c, other.c) ELSE other.c)

\* SolutionCoordinate.__sub__
CoordSub(self, other) ==
    SolutionCoordinate(FSub(self.x, other.x), FSub(self.y, other.y), FSub(self.z, other.z),
                       IF other.a # Float(0) THEN FDiv(self.a, other.a) ELSE self.a,
                       IF other.b # Float(0) THEN FDiv(self.b, other.b) ELSE self.b,
                       IF other.c # Float(0) THEN FDiv(self.c, other.c) ELSE self.c)

\* __eq__ that compares the position alone
CoordEq_PositionOnly(self, other) ==
    \A f \in {"x", "y", "z"} : FLess(FAbs(FSub(self[f], other[f])), Tolerance)

\* SolutionCoordinate.__eq__ between two coordinates
CoordEq(self, other) ==
    \A f \in {"x", "y", "z", "a", "b", "c"} : FLess(FAbs(FSub(self[f], other[f])), Tolerance)

\* the operand an expression names: object i, or the value of the
\* subexpression just evaluated
Operand(i) == IF i = None THEN cret ELSE coords[i]

\* a left operand can be the sum just computed, as in (p + q) - r
LeftOperands == (DOMAIN coords) \cup (IF lastCall.op = "__add__" THEN {None} ELSE {})

\* coords[i] + coords[j]
Add(i, j) ==
    /\ cret' = CoordAdd(Operand(i), Operand(j))
    /\ lastCall' = Call("__add__", i, j, FALSE, None)
    /\ ret' = ReturnNone
    /\ UNCHANGED <<parent, children, alive, coordVars, fieldVars, cloneOf, threads, appVars>>

\* left - coords[j]
Sub(i, j) ==
    /\ cret' = CoordSub(Operand(i), Operand(j))
    /\ lastCall' = Call("__sub__", i, j, FALSE, None)
    /\ ret' = ReturnNone
    /\ UNCHANGED <<parent, children, alive, coordVars, fieldVars, cloneOf, threads, appVars>>

\* the operand objects as constructed; no nodes
AlgebraInit ==
    /\ parent = <<>>
    /\ children = <<>>
    /\ alive = {}
    /\ coordinate = <<>>
    /\ lastCall = Call("__init__", None, None, FALSE, None)
    /\ ret = ReturnNone
    /\ cret = NoCoord
    /\ FreshFields({})
    /\ NoApplication
    /\ coords \in [1..NumOperands ->
                    {Coord6(p[1], p[2], p[3], o[1], o[2], o[3]) :
                        p \in OperandPositions, o \in OperandOrientations}]

AlgebraNext ==
    \/ \E i, j \in DOMAIN coords : Add(i, j)
    \/ \E i \in LeftOperands, j \in DOMAIN coords : Sub(i, j)

SpecAlgebra == AlgebraInit /\ [][AlgebraNext]_vars

----------------------------------------------------------------------------
\* SolutionCoordinate.__eq__ and distance_to on operand objects.

\* an operand that is not a SolutionCoordinate (a tuple, None, a number)
NotCoordinate == -1

\* isinstance(other, SolutionCoordinate)
Isinstance(j) == j \in DOMAIN coords

\* coordinates around (1, 2, 3; 1, 1, 1): x off by 1e-7 and by 1e-2, y off
\* by 1e-6, a off by 1e-2
EqualityOperands ==
    {SolutionCoordinate(x, y, Float(3), a, Float(1), Float(1)) :
        x \in {Float(1), Frac(10000001, 10000000), Frac(101, 100)},
        y \in {Float(2), Frac(2000001, 1000000)},
        a \in {Float(1), Frac(101, 100)}}

\* self == other
EqResult(i, j) ==
    IF ~Isinstance(j) THEN FALSE ELSE CoordEq(coords[i], coords[j])

Eq(i, j) ==
    /\ ret' = ReturnedValue(EqResult(i, j))
    /\ lastCall' = Call("__eq__", i, j, FALSE, None)
    /\ cret' = NoCoord
    /\ UNCHANGED <<parent, children, alive, coordVars, fieldVars, cloneOf, threads, appVars>>

\* operand objects, no nodes
OperandInit(values) ==
    /\ parent = <<>>
    /\ children = <<>>
    /\ alive = {}
    /\ coordinate = <<>>
    /\ lastCall = Call("__init__", None, None, FALSE, None)
    /\ ret = ReturnNone
    /\ cret = NoCoord
    /\ FreshFields({})
    /\ NoApplication
    /\ coords \in [1..NumOperands -> values]

EqualityInit == OperandInit(EqualityOperands)

EqualityNext ==
    \E i \in DOMAIN coords, j \in (DOMAIN coords) \cup {NotCoordinate} : Eq(i, j)

SpecEquality == EqualityInit /\ [][EqualityNext]_vars

\* math.sqrt(r): the number that is not negative and whose square is r
Sqrt(r) == [squared |-> r]

\* the float d is the value v
IsValue(d, v) == FMul(v, v) = d.squared /\ v[1] >= 0

\* distance_to that measures the orientation fields as well
DistanceTo_WithOrientation(self, other) ==
    LET dx == FSub(self.x, other.x)
        dy == FSub(self.y, other.y)
        dz == FSub(self.z, other.z)
        da == FSub(self.a, other.a)
    IN  Sqrt(FAdd(FAdd(FAdd(FMul(dx, dx), FMul(dy, dy)), FMul(dz, dz)), FMul(da, da)))

\* SolutionCoordinate.distance_to
DistanceTo(self, other) ==
    LET dx == FSub(self.x, other.x)
        dy == FSub(self.y, other.y)
        dz == FSub(self.z, other.z)
    IN  Sqrt(FAdd(FAdd(FMul(dx, dx), FMul(dy, dy)), FMul(dz, dz)))

DistancePositions == {<<0, 0, 0>>, <<3, 4, 0>>, <<1, 2, 3>>}
DistanceOrientations == {<<1, 1, 1>>, <<2, 3, 4>>}

DistanceOperands ==
    {Coord6(p[1], p[2], p[3], o[1], o[2], o[3]) :
        p \in DistancePositions, o \in DistanceOrientations}

DistanceToCall(i, j) ==
    /\ ret' = ReturnedValue(DistanceTo(coords[i], coords[j]))
    /\ lastCall' = Call("distance_to", i, j, FALSE, None)
    /\ cret' = NoCoord
    /\ UNCHANGED <<parent, children, alive, coordVars, fieldVars, cloneOf, threads, appVars>>

DistanceInit == OperandInit(DistanceOperands)

DistanceNext == \E i, j \in DOMAIN coords : DistanceToCall(i, j)

SpecDistance == DistanceInit /\ [][DistanceNext]_vars

----------------------------------------------------------------------------
\* Two threads, each inside one add_child or remove_child call on the same
\* child.  A thread is switched between the statements of the method; each
\* list operation and each attribute assignment is one step.

NumThreadNodes == 3
Threads == {1, 2}

Running(op, self, child) ==
    [op |-> op, self |-> self, child |-> child, pc |-> "test", status |-> "ok",
     overlapped |-> FALSE]

\* thread u is between two statements of its call
MidCall(u) == threads[u].pc \notin {"test", "done"}

\* thread t moves to pc; the step overlaps a call when another thread is
\* inside its own
Advance(t, pc, status) ==
    [threads EXCEPT ![t].pc = pc,
                    ![t].status = status,
                    ![t].overlapped = @ \/ \E u \in Threads \ {t} : MidCall(u)]

threadFrame == <<lastCall, ret, cret, alive, coordVars, fieldVars, cloneOf, appVars>>

\* thread 1 enters s1.add_child(c); thread 2 enters s2.add_child(c) or
\* s2.remove_child(c)
StartThreads(op2, s1, s2, c) ==
    /\ threads = <<>>
    /\ threads' = (1 :> Running("add_child", s1, c)) @@ (2 :> Running(op2, s2, c))
    /\ lastCall' = Call("threads", None, c, FALSE, None)
    /\ ret' = ReturnNone
    /\ cret' = NoCoord
    /\ UNCHANGED <<parent, children, alive, coordVars, fieldVars, cloneOf, appVars>>

\* if child in self.children
ThreadTest(t) ==
    /\ threads[t].pc = "test"
    /\ LET th    == threads[t]
           found == InList(children[th.self], th.child)
       IN  threads' = Advance(t, IF th.op = "add_child"
                                 THEN (IF found THEN "done" ELSE "check")
                                 ELSE (IF found THEN "remove" ELSE "done"), "ok")
    /\ UNCHANGED <<parent, children, threadFrame>>

\* add_child: if child.parent
ThreadCheck(t) ==
    /\ threads[t].pc = "check"
    /\ threads' = Advance(t, IF parent[threads[t].child] # None THEN "detach" ELSE "assign",
                          "ok")
    /\ UNCHANGED <<parent, children, threadFrame>>

\* add_child whose detach step leaves the old parent's list as it is
ThreadDetach_LeavesList(t) ==
    /\ threads[t].pc = "detach"
    /\ threads' = Advance(t, "assign", "ok")
    /\ UNCHANGED <<parent, children, threadFrame>>

\* add_child: child.parent.children.remove(child); child.parent is read again
ThreadDetach(t) ==
    /\ threads[t].pc = "detach"
    /\ LET c   == threads[t].child
           old == parent[c]
       IN  IF old = None
           THEN /\ threads' = Advance(t, "done", "AttributeError")
                /\ UNCHANGED children
           ELSE IF ~InList(children[old], c)
           THEN /\ threads' = Advance(t, "done", "ValueError")
                /\ UNCHANGED children
           ELSE /\ threads' = Advance(t, "assign", "ok")
                /\ children' = [children EXCEPT ![old] = ListRemove(@, c)]
    /\ UNCHANGED <<parent, threadFrame>>

\* add_child: child.parent = self
ThreadAssign(t) ==
    /\ threads[t].pc = "assign"
    /\ parent' = [parent EXCEPT ![threads[t].child] = threads[t].self]
    /\ threads' = Advance(t, "append", "ok")
    /\ UNCHANGED <<children, threadFrame>>

\* add_child: self.children.append(child)
ThreadAppend(t) ==
    /\ threads[t].pc = "append"
    /\ children' = [children EXCEPT ![threads[t].self] = Append(@, threads[t].child)]
    /\ threads' = Advance(t, "done", "ok")
    /\ UNCHANGED <<parent, threadFrame>>

\* remove_child: self.children.remove(child)
ThreadRemove(t) ==
    /\ threads[t].pc = "remove"
    /\ LET th == threads[t]
       IN  IF ~InList(children[th.self], th.child)
           THEN /\ threads' = Advance(t, "done", "ValueError")
                /\ UNCHANGED children
           ELSE /\ threads' = Advance(t, "clear", "ok")
                /\ children' = [children EXCEPT ![th.self] = ListRemove(@, th.child)]
    /\ UNCHANGED <<parent, threadFrame>>

\* remove_child: child.parent = None
ThreadClear(t) ==
    /\ threads[t].pc = "clear"
    /\ parent' = [parent EXCEPT ![threads[t].child] = None]
    /\ threads' = Advance(t, "done", "ok")
    /\ UNCHANGED <<children, threadFrame>>

\* fresh nodes, no thread started
ThreadInit ==
    /\ parent = [n \in 1..NumThreadNodes |-> None]
    /\ children = [n \in 1..NumThreadNodes |-> <<>>]
    /\ lastCall = Call("__init__", None, None, FALSE, None)
    /\ ret = ReturnNone
    /\ alive = 1..NumThreadNodes
    /\ coordinate = [n \in 1..NumThreadNodes |-> n]
    /\ coords = [n \in 1..NumThreadNodes |-> DefaultCoordinate]
    /\ cret = NoCoord
    /\ FreshFields(1..NumThreadNodes)
    /\ NoApplication

\* one call made before the threads start, then the threads' steps in any
\* order
ThreadNext ==
    \/ \E s, c \in alive :
          /\ threads = <<>>
          /\ lastCall.op = "__init__"
          /\ AddChild(s, c)
    \/ \E op2 \in {"add_child", "remove_child"}, s1, s2, c \in alive :
          StartThreads(op2, s1, s2, c)
    \/ \E t \in DOMAIN threads :
          \/ ThreadTest(t)
          \/ ThreadCheck(t)
          \/ ThreadDetach(t)
          \/ ThreadAssign(t)
          \/ ThreadAppend(t)
          \/ ThreadRemove(t)
          \/ ThreadClear(t)

SpecThreads == ThreadInit /\ [][ThreadNext]_vars

----------------------------------------------------------------------------
\* Flags, properties and copy().  Objects that copy() constructs come from
\* the part of the object pool that is not alive yet.

NumSourceNodes == 2
MaxClones == 2
MaxValues == 1
MaxItems == 1

Pool == DOMAIN parent

\* set_visible that passes the flag on to the children
SetVisible_Propagates(self, v) ==
    /\ visible' = [n \in DOMAIN visible |->
                      IF n = self \/ InList(children[self], n) THEN v ELSE visible[n]]
    /\ lastCall' = CallWith("set_visible", self, v)
    /\ ret' = ReturnNone
    /\ cret' = NoCoord
    /\ UNCHANGED <<parent, children, alive, coordVars, name, ident, locked, properties, props,
                   objs, cloneOf, threads, appVars>>

\* self.set_visible(visible)
SetVisible(self, v) ==
    /\ visible' = [visible EXCEPT ![self] = v]
    /\ lastCall' = CallWith("set_visible", self, v)
    /\ ret' = ReturnNone
    /\ cret' = NoCoord
    /\ UNCHANGED <<parent, children, alive, coordVars, name, ident, locked, properties, props,
                   objs, cloneOf, threads, appVars>>

\* self.set_locked(locked)
SetLocked(self, v) ==
    /\ locked' = [locked EXCEPT ![self] = v]
    /\ lastCall' = CallWith("set_locked", self, v)
    /\ ret' = ReturnNone
    /\ cret' = NoCoord
    /\ UNCHANGED <<parent, children, alive, coordVars, name, ident, visible, properties, props,
                   objs, cloneOf, threads, appVars>>

\* self.set_property(key, []): the value is a new, empty list
SetProperty(self, key) ==
    /\ Len(objs) < MaxValues
    /\ objs' = Append(objs, <<>>)
    /\ props' = [props EXCEPT ![properties[self]][key] = Len(objs) + 1]
    /\ lastCall' = CallWith("set_property", self, key)
    /\ ret' = ReturnNone
    /\ cret' = NoCoord
    /\ UNCHANGED <<parent, children, alive, coordVars, name, ident, visible, locked,
                   properties, cloneOf, threads, appVars>>

\* self.get_property(key): the content of the value object, <<>> for an
\* empty list; None when the key is not set
GetProperty(self, key) ==
    IF props[properties[self]][key] = None THEN None
    ELSE objs[props[properties[self]][key]]

\* self.get_property(key).append(1): the caller changes the list it got
MutateValue(self, key) ==
    /\ props[properties[self]][key] # None
    /\ Len(objs[props[properties[self]][key]]) < MaxItems
    /\ objs' = [objs EXCEPT ![props[properties[self]][key]] = Append(@, 1)]
    /\ lastCall' = Call("get_property", self, None, FALSE, None)
    /\ ret' = ReturnNone
    /\ cret' = NoCoord
    /\ UNCHANGED <<parent, children, alive, coordVars, name, ident, visible, locked,
                   properties, props, cloneOf, threads, appVars>>

\* the objects copy() reads and writes
Heap ==
    [alive |-> alive, parent |-> parent, children |-> children,
     coordinate |-> coordinate, coords |-> coords, name |-> name, ident |-> ident,
     visible |-> visible, locked |-> locked, properties |-> properties, props |-> props,
     cloneOf |-> cloneOf]

\* the next object constructed
NewObject(h) == CHOOSE n \in DOMAIN h.parent \ h.alive :
                    \A m \in DOMAIN h.parent \ h.alive : n <= m

\* the recursion of copy() goes deeper than there are nodes: it does not end
RECURSIVE Overflows(_, _)
Overflows(self, depth) ==
    IF depth > Cardinality(alive) THEN TRUE
    ELSE \E i \in 1..Len(children[self]) : Overflows(children[self][i], depth + 1)

\* the number of objects self.copy() constructs
RECURSIVE CopySize(_)
CopySize(self) ==
    LET RECURSIVE Sum(_)
        Sum(lst) == IF lst = <<>> THEN 0 ELSE CopySize(Head(lst)) + Sum(Tail(lst))
    IN  1 + Sum(children[self])

RECURSIVE CopyNode_SharesCoordinate(_, _)
RECURSIVE CopyNode_KeepsId(_, _)
RECURSIVE CopyNode(_, _)
RECURSIVE CopyChildren(_, _, _)

\* for child in self.children: new_obj.add_child(child.copy())
\* (add_child on two new objects: the child has no parent and is not in the list)
CopyChildren(h, new, todo) ==
    IF todo = <<>> THEN h
    ELSE LET r == CopyNode(h, Head(todo))
             attached == [r.heap EXCEPT !.parent[r.node] = new,
                                        !.children[new] = Append(@, r.node)]
         IN  CopyChildren(attached, new, Tail(todo))

\* copy() that hands its own coordinate object to the new node
CopyNode_SharesCoordinate(h, self) ==
    LET new == NewObject(h)
        made == [h EXCEPT !.alive = @ \cup {new},
                          !.parent[new] = None,
                          !.children[new] = <<>>,
                          !.name[new] = h.name[self],
                          !.coordinate[new] = h.coordinate[self],
                          !.ident[new] = new,
                          !.visible[new] = h.visible[self],
                          !.locked[new] = h.locked[self],
                          !.properties[new] = new,
                          !.props[new] = h.props[h.properties[self]],
                          !.cloneOf[new] = self]
    IN  [heap |-> CopyChildren(made, new, h.children[self]), node |-> new]

\* copy() that gives the new node the id of the original
CopyNode_KeepsId(h, self) ==
    LET new == NewObject(h)
        made == [h EXCEPT !.alive = @ \cup {new},
                          !.parent[new] = None,
                          !.children[new] = <<>>,
                          !.name[new] = h.name[self],
                          !.coordinate[new] = new,
                          !.coords[new] = CoordinateCopy(h.coords[h.coordinate[self]]),
                          !.ident[new] = h.ident[self],
                          !.visible[new] = h.visible[self],
                          !.locked[new] = h.locked[self],
                          !.properties[new] = new,
                          !.props[new] = h.props[h.properties[self]],
                          !.cloneOf[new] = self]
    IN  [heap |-> CopyChildren(made, new, h.children[self]), node |-> new]

\* self.copy(): a new node with the name, a copy of the coordinate, the
\* flags, a shallow copy of the properties (the dict is new, the values are
\* the same objects), and copies of the children in list order
CopyNode(h, self) ==
    LET new == NewObject(h)
        made == [h EXCEPT !.alive = @ \cup {new},
                          !.parent[new] = None,
                          !.children[new] = <<>>,
                          !.name[new] = h.name[self],
                          !.coordinate[new] = new,
                          !.coords[new] = CoordinateCopy(h.coords[h.coordinate[self]]),
                          !.ident[new] = new,
                          !.visible[new] = h.visible[self],
                          !.locked[new] = h.locked[self],
                          !.properties[new] = new,
                          !.props[new] = h.props[h.properties[self]],
                          !.cloneOf[new] = self]
    IN  [heap |-> CopyChildren(made, new, h.children[self]), node |-> new]

\* self.copy()
Copy(self) ==
    /\ lastCall' = Call("copy", self, None, FALSE, None)
    /\ cret' = NoCoord
    /\ UNCHANGED <<objs, threads, appVars>>
    /\ IF Overflows(self, 1)
       THEN \* RecursionError; the objects made so far are never returned
            /\ ret' = Raised("RecursionError")
            /\ UNCHANGED <<parent, children, alive, coordVars, name, ident, visible,
                           locked, properties, props, cloneOf>>
       ELSE /\ CopySize(self) <= Cardinality(Pool \ alive)
            /\ LET r == CopyNode(Heap, self)
               IN  /\ ret' = Returned(r.node, <<>>)
                   /\ alive' = r.heap.alive
                   /\ parent' = r.heap.parent
                   /\ children' = r.heap.children
                   /\ coordinate' = r.heap.coordinate
                   /\ coords' = r.heap.coords
                   /\ name' = r.heap.name
                   /\ ident' = r.heap.ident
                   /\ visible' = r.heap.visible
                   /\ locked' = r.heap.locked
                   /\ properties' = r.heap.properties
                   /\ props' = r.heap.props
                   /\ cloneOf' = r.heap.cloneOf

\* the source nodes as constructed, each with a coordinate of its own
CopyInit ==
    LET pool == 1..(NumSourceNodes + MaxClones)
    IN  /\ parent = [n \in pool |-> None]
        /\ children = [n \in pool |-> <<>>]
        /\ lastCall = Call("__init__", None, None, FALSE, None)
        /\ ret = ReturnNone
        /\ alive = 1..NumSourceNodes
        /\ coordinate = [n \in pool |-> n]
        /\ coords = [n \in pool |-> IF n <= NumSourceNodes
                                    THEN Coord6(n, n + 1, n + 2, 1, 1, n + 1)
                                    ELSE DefaultCoordinate]
        /\ cret = NoCoord
        /\ FreshFields(pool)
        /\ NoApplication

\* no copy has been made yet
NoClone == \A n \in alive : cloneOf[n] = None

\* the calls so far have only assembled the source hierarchy
Assembling == NoClone /\ lastCall.op \in {"__init__", "add_child", "remove_child"}

\* the source hierarchy is assembled, one of its nodes is given a flag or a
\* property, a node is copied, and the list held by a property is changed
CopyNext ==
    \/ \E self, child \in alive : Assembling /\ AddChild(self, child)
    \/ \E self, child \in alive : Assembling /\ RemoveChild(self, child)
    \/ \E self \in alive : Assembling /\ SetVisible(self, FALSE)
    \/ \E self \in alive : Assembling /\ SetLocked(self, TRUE)
    \/ \E self \in alive, key \in PropKeys : Assembling /\ SetProperty(self, key)
    \/ \E self \in alive : Copy(self)
    \/ \E self \in alive, key \in PropKeys : ~NoClone /\ MutateValue(self, key)

SpecCopy == CopyInit /\ [][CopyNext]_vars

\* the source hierarchy is assembled, a node is copied, and one more call
\* is made on any node of either hierarchy
CloneNext ==
    \/ \E self, child \in alive : Assembling /\ AddChild(self, child)
    \/ \E self \in alive : NoClone /\ Copy(self)
    \/ /\ lastCall.op = "copy"
       /\ ret.status = "ok"
       /\ \/ \E self, child \in alive : AddChild(self, child)
          \/ \E self, child \in alive : RemoveChild(self, child)
          \/ \E self \in alive, p \in Positions : MoveTo(self, p[1], p[2], p[3])
          \/ \E self \in alive, d \in Deltas : Translate(self, d[1], d[2], d[3])
          \/ \E self \in alive, o \in Orientations : SetOrientation(self, o[1], o[2], o[3])
          \/ \E self \in alive, v \in BOOLEAN : SetVisible(self, v)
          \/ \E self \in alive, v \in BOOLEAN : SetLocked(self, v)
          \/ \E self \in alive, key \in PropKeys : SetProperty(self, key)

SpecClone == CopyInit /\ [][CloneNext]_vars

----------------------------------------------------------------------------
\* Every operation of a node, called on an assembled hierarchy after one
\* set_locked call.

FieldValues == {7}

\* self.x = v, ..., self.c = v: the property setters
SetField(self, f, v) ==
    /\ coords' = [coords EXCEPT ![coordinate[self]][f] = Float(v)]
    /\ lastCall' = CallWith("set_field", self, <<f, v>>)
    /\ ret' = ReturnNone
    /\ cret' = NoCoord
    /\ UNCHANGED <<parent, children, alive, coordinate, fieldVars, cloneOf, threads, appVars>>

\* self.is_visible(), self.is_locked()
IsVisible(self) == visible[self]
IsLocked(self) == locked[self]

\* self.get_children()
GetChildrenCall(self) ==
    /\ UNCHANGED <<parent, children>>
    /\ UNCHANGED beyondHierarchy
    /\ cret' = NoCoord
    /\ lastCall' = Call("get_children", self, None, FALSE, None)
    /\ ret' = Returned(None, GetChildren(self))

\* self.get_parent()
GetParentCall(self) ==
    /\ UNCHANGED <<parent, children>>
    /\ UNCHANGED beyondHierarchy
    /\ cret' = NoCoord
    /\ lastCall' = Call("get_parent", self, None, FALSE, None)
    /\ ret' = Returned(GetParent(self), <<>>)

\* the hierarchy is assembled, one node is locked or unlocked, and one
\* more call is made
FrameNext ==
    \/ \E self, child \in alive : Assembling /\ AddChild(self, child)
    \/ \E self, child \in alive : Assembling /\ RemoveChild(self, child)
    \/ \E self \in alive, v \in BOOLEAN : Assembling /\ SetLocked(self, v)
    \/ /\ lastCall.op = "set_locked"
       /\ \/ \E self, child \in alive : AddChild(self, child)
          \/ \E self, child \in alive : RemoveChild(self, child)
          \/ \E self \in alive, p \in Positions : MoveTo(self, p[1], p[2], p[3])
          \/ \E self \in alive, d \in Deltas : Translate(self, d[1], d[2], d[3])
          \/ \E self \in alive, o \in Orientations : SetOrientation(self, o[1], o[2], o[3])
          \/ \E self \in alive, f \in {"x", "y", "z", "a", "b", "c"}, v \in FieldValues :
                SetField(self, f, v)
          \/ \E self \in alive, v \in BOOLEAN : SetVisible(self, v)
          \/ \E self \in alive, key \in PropKeys : SetProperty(self, key)
          \/ \E self \in alive : GetChildrenCall(self)
          \/ \E self \in alive : GetParentCall(self)
          \/ \E self \in alive : GetRootCall(self)
          \/ \E self \in alive : GetAncestorsCall(self)
          \/ \E self \in alive : GetDescendantsCall(self)
          \/ \E self \in alive : GetAbsoluteCoordinateCall(self)

SpecFrame == CoordInit /\ [][FrameNext]_vars

----------------------------------------------------------------------------
\* Vocabulary of the properties.

\* the places (list, index) at which node n is held as a child
Places(n) ==
    UNION {{<<p, i>> : i \in {j \in 1..Len(children[p]) : children[p][j] = n}} : p \in Node}

\* lst holds no value twice
NoRepeat(lst) == \A i, j \in 1..Len(lst) : lst[i] = lst[j] => i = j

\* the values of lst
Elems(lst) == {lst[i] : i \in 1..Len(lst)}

ChildSet(n) == Elems(children[n])

\* the nodes below-or-equal n along child lists
RECURSIVE Below(_)
Below(S) ==
    LET T == S \cup UNION {ChildSet(x) : x \in S}
    IN  IF T = S THEN S ELSE Below(T)

Subtree(n) == Below({n})

\* the nodes linked to n by parent references in either direction
Neighbours(n) ==
    {m \in Node : parent[m] = n} \cup (IF parent[n] = None THEN {} ELSE {parent[n]})

RECURSIVE Linked(_)
Linked(S) ==
    LET T == S \cup UNION {Neighbours(x) : x \in S}
    IN  IF T = S THEN S ELSE Linked(T)

Component(n) == Linked({n})

\* no node is its own ancestor
Acyclic == \A n \in Node : \A c \in ChildSet(n) : n \notin Subtree(c)

----------------------------------------------------------------------------
\* C1: after any sequence of add_child and remove_child calls, every node
\* is held in at most one child list, and at most once in it.
C1_SingleMembership == \A n \in Node : Cardinality(Places(n)) <= 1

\* a node has just been moved from one parent's list to another's
C1_Witness ==
    /\ lastCall.op = "add_child"
    /\ lastCall.detached \notin {None, lastCall.self}
    /\ Cardinality(Places(lastCall.child)) = 1

\* C2: n.parent is p exactly when n is an element of p.children, and a
\* node whose parent is None is in no child list.
C2_ParentChildConsistency ==
    /\ \A n, p \in Node : (GetParent(n) = p) <=> InList(GetChildren(p), n)
    /\ \A n \in Node : GetParent(n) = None => \A p \in Node : ~InList(GetChildren(p), n)

\* a child has just been taken out of a list, others are still attached
C2_Witness ==
    /\ lastCall.op = "remove_child"
    /\ lastCall.found
    /\ parent[lastCall.child] = None
    /\ \E n \in Node : parent[n] # None

\* C3: immediately after A.add_child(B), B.get_parent() is A and B is
\* exactly once in A.get_children().
C3_AddChildAttaches ==
    lastCall.op = "add_child" =>
        /\ ret.status = "ok"
        /\ GetParent(lastCall.child) = lastCall.self
        /\ Count(GetChildren(lastCall.self), lastCall.child) = 1

\* add_child has just attached a node that was not a child before
C3_Witness ==
    /\ lastCall.op = "add_child"
    /\ ~lastCall.found
    /\ GetParent(lastCall.child) = lastCall.self

\* The outcome of C.add_child(B) right after A.add_child(B), for the step
\* from the state after the first call to the state after the second.
ReparentOutcome(A, B, C) ==
    /\ ~InList(children'[A], B)
    /\ Count(children'[C], B) = 1
    /\ parent'[B] = C
    /\ children'[C][Len(children'[C])] = B
    /\ Without(children'[A], B) = Without(children[A], B)

SecondAdd ==
    /\ lastCall.op = "add_child"
    /\ lastCall'.op = "add_child"
    /\ lastCall'.child = lastCall.child

\* C4 as stated, for all A, B, C: after A.add_child(B) followed by
\* C.add_child(B), B is out of A's list, once in C's list, at its end, with
\* parent C, and A's remaining children keep their order.
C4_ReparentAnyNodes ==
    [][SecondAdd => ReparentOutcome(lastCall.self, lastCall.child, lastCall'.self)]_vars

\* C4 amended: the same for A and C different nodes; C's list after the
\* call is its list before with B appended.
C4_Reparent ==
    [][(SecondAdd /\ lastCall'.self # lastCall.self) =>
          /\ ReparentOutcome(lastCall.self, lastCall.child, lastCall'.self)
          /\ children'[lastCall'.self] =
                 Append(children[lastCall'.self], lastCall'.child)]_vars

\* B has been moved from a parent with other children to a parent with
\* other children
C4_Witness ==
    /\ lastCall.op = "add_child"
    /\ lastCall.detached \notin {None, lastCall.self}
    /\ children[lastCall.detached] # <<>>
    /\ Len(children[lastCall.self]) >= 2
    /\ parent[lastCall.child] = lastCall.self

\* C5: A.add_child(B) with B already in A.children changes no node: same
\* lists in the same order, same parents; so a second A.add_child(B) right
\* after a first changes nothing.
C5_AddExistingChildNoOp ==
    [][LET A == lastCall'.self
           B == lastCall'.child
           again == lastCall.op = "add_child" /\ lastCall.self = A /\ lastCall.child = B
       IN  (lastCall'.op = "add_child" /\ (InList(children[A], B) \/ again)) =>
               /\ UNCHANGED <<parent, children>>
               /\ ret'.status = "ok"]_vars

\* add_child was called on a child that is not the last of the list, and
\* it still is not
C5_Witness ==
    /\ lastCall.op = "add_child"
    /\ lastCall.found
    /\ Len(children[lastCall.self]) >= 2
    /\ children[lastCall.self][1] = lastCall.child

\* C6 as stated: if B is a direct child of A, after A.remove_child(B) B is
\* not in A.get_children(), B.get_parent() is None, A's other children keep
\* their order and B keeps its own children.
C6_RemoveChildDetaches ==
    [][(lastCall'.op = "remove_child"
            /\ InList(children[lastCall'.self], lastCall'.child)) =>
          /\ ~InList(children'[lastCall'.self], lastCall'.child)
          /\ parent'[lastCall'.child] = None
          /\ children'[lastCall'.self] =
                 Without(children[lastCall'.self], lastCall'.child)
          /\ children'[lastCall'.child] = children[lastCall'.child]]_vars

\* C7: if B is not a direct child of A, A.remove_child(B) changes no
\* state: A's list and every parent reference stay, B's included, and
\* nothing is raised.
C7_RemoveNonChildNoOp ==
    [][(lastCall'.op = "remove_child"
            /\ ~InList(children[lastCall'.self], lastCall'.child)) =>
          /\ UNCHANGED <<parent, children>>
          /\ ret'.status = "ok"]_vars

\* remove_child was called with another node's child, which is still
\* attached to its parent
C7_Witness ==
    /\ lastCall.op = "remove_child"
    /\ ~lastCall.found
    /\ parent[lastCall.child] \notin {None, lastCall.self}
    /\ InList(children[parent[lastCall.child]], lastCall.child)

\* C8 as stated: get_root() on any node of a connected hierarchy returns
\* the same node, the only node of the hierarchy whose parent is None, and
\* the root's root is itself.
C8_UniqueRoot ==
    lastCall.op = "get_root" =>
        /\ ret.status = "ok"
        /\ \A m \in Component(lastCall.self) : GetRoot(m) = ret
        /\ {m \in Component(lastCall.self) : parent[m] = None} = {ret.node}
        /\ GetRoot(ret.node) = ret

\* C9 as stated: get_descendants() on n returns every node of n's subtree
\* but n, each once, in pre-order: the children in list order, each
\* directly followed by all of its own descendants.
C9_DescendantsPreOrder ==
    lastCall.op = "get_descendants" =>
        LET n == lastCall.self
            d == ret.list
        IN  /\ ret.status = "ok"
            /\ Elems(d) = Subtree(n) \ {n}
            /\ NoRepeat(d)
            /\ Len(d) = Cardinality(Subtree(n)) - 1
            /\ SelectSeq(d, LAMBDA x : x \in ChildSet(n)) = children[n]
            /\ \A i \in 1..Len(d) :
                  LET size == Cardinality(Subtree(d[i]))
                  IN  /\ i + size - 1 <= Len(d)
                      /\ {d[j] : j \in i..(i + size - 1)} = Subtree(d[i])
                      /\ SelectSeq(SubSeq(d, i, i + size - 1),
                                   LAMBDA x : x \in ChildSet(d[i])) = children[d[i]]

\* C10 as stated: get_ancestors() on n returns the parent chain from
\* n's parent up to the root, without n; it is empty exactly when n has no
\* parent, and its last element is n.get_root().
C10_AncestorsChain ==
    lastCall.op = "get_ancestors" =>
        LET n == lastCall.self
            a == ret.list
        IN  /\ ret.status = "ok"
            /\ n \notin Elems(a)
            /\ (a = <<>>) <=> (parent[n] = None)
            /\ a # <<>> => a[1] = parent[n]
            /\ \A i \in 1..(Len(a) - 1) : a[i + 1] = parent[a[i]]
            /\ a # <<>> => GetRoot(n) = Returned(a[Len(a)], <<>>)

----------------------------------------------------------------------------
\* Composition of the local coordinates along a chain of nodes.

RECURSIVE ChainSum(_, _)
ChainSum(chain, f) ==
    IF chain = <<>> THEN Float(0)
    ELSE FAdd(Local(Head(chain))[f], ChainSum(Tail(chain), f))

RECURSIVE ChainProduct(_, _)
ChainProduct(chain, f) ==
    IF chain = <<>> THEN Float(1)
    ELSE FMul(Local(Head(chain))[f], ChainProduct(Tail(chain), f))

\* position: sum of the positions; orientation: product of the orientations
Composition(chain) ==
    SolutionCoordinate(ChainSum(chain, "x"), ChainSum(chain, "y"), ChainSum(chain, "z"),
                       ChainProduct(chain, "a"), ChainProduct(chain, "b"),
                       ChainProduct(chain, "c"))

\* n followed by its ancestors up to the root (the chain ends at a root)
HasChain(n) == GetAncestors(n).status = "ok"
ChainOf(n) == <<n>> \o GetAncestors(n).list

C12_AbsoluteNeverStale ==
    [][\A n \in Node :
          (lastCall'.op = "get_absolute_coordinate" /\ lastCall'.self = n) =>
              /\ UNCHANGED <<parent, children, alive, coordinate, coords, fieldVars, cloneOf, threads, appVars>>
              /\ HasChain(n) => (ret'.status = "ok" /\ cret' = Composition(ChainOf(n)))
              /\ (lastCall.op = "get_absolute_coordinate" /\ lastCall.self = n)
                     => (cret' = cret /\ ret' = ret)]_vars

\* the call was made below a parent that was moved and re-oriented after
\* construction, on a node that was moved itself
C12_Witness ==
    /\ lastCall.op = "get_absolute_coordinate"
    /\ ret.status = "ok"
    /\ parent[lastCall.self] # None
    /\ Local(parent[lastCall.self]) = Coord6(4, 5, 6, 2, 2, 2)
    /\ Local(lastCall.self) = Coord6(4, 5, 6, 1, 1, 1)
    /\ cret = Coord6(8, 10, 12, 2, 2, 2)

----------------------------------------------------------------------------
\* the nodes reached from S by following par upwards
RECURSIVE UpClosure(_, _)
UpClosure(par, S) ==
    LET T == S \cup ({par[x] : x \in S} \ {None})
    IN  IF T = S THEN S ELSE UpClosure(par, T)

\* n is reached again by following parent links from n
OwnAncestor(par, n) == par[n] # None /\ n \in UpClosure(par, {par[n]})

\* C17: add_child performs no cycle check.  A call s.add_child(c) where s
\* is c itself or a descendant of c returns normally, leaves c a child of s
\* with c.parent = s, and c is then its own ancestor; when s is a child of
\* c (after c.add_child(s)), the call leaves c.parent = s and s.parent = c
\* and no node of their component has parent None.
C17_NoCycleCheck ==
    [][\A s, c \in Node :
          (/\ lastCall'.op = "add_child"
           /\ lastCall'.self = s
           /\ lastCall'.child = c
           /\ s \in Subtree(c)) =>
              /\ ret'.status = "ok"
              /\ parent'[c] = s
              /\ InList(children'[s], c)
              /\ OwnAncestor(parent', c)
              /\ (s # c /\ parent[s] = c) =>
                    /\ parent'[s] = c
                    /\ \A m \in Component(c)' : parent'[m] # None]_vars

\* B.add_child(A) has just been accepted while B was the only child of the
\* parentless A: the two are each other's parent
C17_Witness ==
    /\ lastCall.op = "add_child"
    /\ ~lastCall.found
    /\ lastCall.detached = None
    /\ lastCall.self # lastCall.child
    /\ parent[lastCall.child] = lastCall.self
    /\ parent[lastCall.self] = lastCall.child
    /\ children[lastCall.child] = <<lastCall.self>>
    /\ OwnAncestor(parent, lastCall.child)
    /\ \A m \in Component(lastCall.child) : parent[m] # None

\* C16 as stated: every operation is total; in every state reachable by
\* any sequence of the operations, each call terminates and returns
\* without raising.
C16_EveryCallReturns ==
    /\ ret.status # "noreturn"
    /\ ret.status \notin {"RecursionError", "ValueError", "ZeroDivisionError"}

----------------------------------------------------------------------------
PositionFields == {"x", "y", "z"}
OrientationFields == {"a", "b", "c"}

\* the step evaluates (coords[i] + coords[j]) - coords[j]: the sum was the
\* last value computed and is now the left operand of the subtraction
RoundTrip(i, j) ==
    /\ lastCall.op = "__add__" /\ lastCall.self = i /\ lastCall.child = j
    /\ lastCall'.op = "__sub__" /\ lastCall'.self = None /\ lastCall'.child = j

\* C19 as stated: for all coordinates p and q, including q with a zero
\* orientation component, (p + q) - q equals p.
C19_SubtractionInvertsAddition ==
    [][\A i, j \in DOMAIN coords : RoundTrip(i, j) => CoordEq(cret', coords[i])]_vars

\* C19: p + q has the sum of the positions and the component-wise product
\* of the orientations; (p + q) - q has p's position, p's orientation in
\* every component where q's is not 0 and 0 in every component where q's
\* is 0, so it equals p when no orientation component of q is 0.
C19_InvertsForNonZero ==
    [][\A i, j \in DOMAIN coords :
          LET p == coords[i]
              q == coords[j]
          IN  /\ (lastCall'.op = "__add__" /\ lastCall'.self = i /\ lastCall'.child = j) =>
                    /\ \A f \in PositionFields : cret'[f] = FAdd(p[f], q[f])
                    /\ \A f \in OrientationFields : cret'[f] = FMul(p[f], q[f])
              /\ RoundTrip(i, j) =>
                    /\ \A f \in PositionFields : cret'[f] = p[f]
                    /\ \A f \in OrientationFields :
                          cret'[f] = IF q[f] # Float(0) THEN p[f] ELSE Float(0)
                    /\ (\A f \in OrientationFields : q[f] # Float(0)) =>
                          (cret' = p /\ CoordEq(cret', p))]_vars

\* (p + q) - q has just been evaluated for q with orientation (2, 3, 4)
\* and gave back an operand with another orientation
C19_Witness ==
    /\ lastCall.op = "__sub__"
    /\ lastCall.self = None
    /\ coords[lastCall.child].a = Float(2)
    /\ \E i \in DOMAIN coords :
          /\ cret = coords[i]
          /\ coords[i].a # Float(2)
          /\ coords[i].a # Float(0)

\* C20: p - q returns normally for all p and q; the result's position is
\* p's minus q's, its orientation component i is p_i / q_i when q_i is not
\* 0 and p_i when q_i is 0, and no operand object is changed.
C20_SubtractionGuard ==
    [][\A i \in (DOMAIN coords) \cup {None}, j \in DOMAIN coords :
          (lastCall'.op = "__sub__" /\ lastCall'.self = i /\ lastCall'.child = j) =>
              LET p == Operand(i)
                  q == coords[j]
              IN  /\ ret'.status = "ok"
                  /\ \A f \in PositionFields : cret'[f] = FSub(p[f], q[f])
                  /\ \A f \in OrientationFields :
                        /\ q[f] # Float(0) => cret'[f] = FDiv(p[f], q[f])
                        /\ q[f] = Float(0) => cret'[f] = p[f]
                  /\ coords' = coords]_vars

\* p - q has just been evaluated for q with orientation (0, 2, 1) and p
\* with a nonzero first orientation component
C20_Witness ==
    /\ lastCall.op = "__sub__"
    /\ lastCall.self # None
    /\ coords[lastCall.child].a = Float(0)
    /\ coords[lastCall.child].b = Float(2)
    /\ coords[lastCall.self].a # Float(0)
    /\ cret.a = coords[lastCall.self].a
    /\ cret.b = FDiv(coords[lastCall.self].b, Float(2))

----------------------------------------------------------------------------
AllDone == threads # <<>> /\ \A t \in Threads : threads[t].pc = "done"
Overlapped == \E t \in DOMAIN threads : threads[t].overlapped

\* some node is in two places of the child lists
InTwoPlaces == \E n \in DOMAIN parent : Cardinality(Places(n)) > 1

\* some node's parent is not the node whose list holds it
ParentDisagrees ==
    \E n, p \in DOMAIN parent : InList(children[p], n) /\ parent[n] # p

\* a thread's list.remove raised
RemoveRaised == \E t \in DOMAIN threads : threads[t].status = "ValueError"

\* C18: add_child/remove_child are not safe under concurrent access.  When
\* the two calls run one after the other, they end with every node in at
\* most one place, with each listed node's parent the list's owner, and
\* without an exception; a node in two child lists, a parent that
\* disagrees with the list, or a raising list.remove arises only from
\* interleaved steps -- and it does arise (C18_Witness).
C18_UnsafeOnlyInterleaved ==
    (AllDone /\ ~Overlapped) =>
        /\ ~InTwoPlaces
        /\ ~ParentDisagrees
        /\ \A t \in Threads : threads[t].status = "ok"

\* P1.add_child(C) and P2.add_child(C) were interleaved and both have
\* returned: C is in the lists of both P1 and P2
C18_Witness ==
    /\ AllDone
    /\ Overlapped
    /\ \A t \in Threads : threads[t].op = "add_child" /\ threads[t].status = "ok"
    /\ threads[1].self # threads[2].self
    /\ \A t \in Threads : InList(children[threads[t].self], threads[t].child)
    /\ ParentDisagrees

----------------------------------------------------------------------------
\* the nodes below n
Descendants(n) == UNION {Subtree(c) : c \in ChildSet(n)}

\* no node of n's subtree is below itself
AcyclicSubtree(n) == \A m \in Subtree(n) : m \notin Descendants(m)

\* node c and everything below it is, node for node and in child order,
\* like node o and everything below it
RECURSIVE Alike(_, _)
Alike(c, o) ==
    /\ name[c] = name[o]
    /\ Local(c) = Local(o)
    /\ CoordEq(Local(c), Local(o))
    /\ visible[c] = visible[o]
    /\ locked[c] = locked[o]
    /\ Len(children[c]) = Len(children[o])
    /\ \A i \in 1..Len(children[o]) : Alike(children[c][i], children[o][i])

Untouched(m) ==
    /\ parent'[m] = parent[m]
    /\ children'[m] = children[m]
    /\ coordinate'[m] = coordinate[m]
    /\ coords'[coordinate'[m]] = coords[coordinate[m]]
    /\ name'[m] = name[m]
    /\ ident'[m] = ident[m]
    /\ visible'[m] = visible[m]
    /\ locked'[m] = locked[m]
    /\ properties'[m] = properties[m]
    /\ props'[properties'[m]] = props[properties[m]]

\* the step is a call on node s, or on nodes s and c, of one hierarchy
CallWithin(hierarchy) ==
    /\ lastCall'.op \in {"add_child", "remove_child", "move_to", "translate",
                         "set_orientation", "set_visible", "set_locked", "set_property"}
    /\ lastCall'.self \in hierarchy
    /\ lastCall'.op \in {"add_child", "remove_child"} => lastCall'.child \in hierarchy

C15_PropertyValuesIndependent ==
    [][\A n, m \in alive, key \in PropKeys :
          (/\ lastCall'.op = "get_property"
           /\ lastCall'.self = n
           /\ cloneOf[n] = m \/ cloneOf[m] = n) =>
              GetProperty(m, key)' = GetProperty(m, key)]_vars

----------------------------------------------------------------------------
AllFields == PositionFields \cup OrientationFields

\* the operand has the given position
At(k, x, y, z) == k.x = x /\ k.y = y /\ k.z = z

\* C21: p == q is true if and only if q is a SolutionCoordinate and each
\* of x, y, z, a, b, c differs by strictly less than 1e-6; (1,2,3) equals
\* (1.0000001,2,3) and does not equal (1.01,2,3); comparison with a value
\* that is not a coordinate is false.
C21_EpsilonEquality ==
    lastCall.op = "__eq__" =>
        LET i == lastCall.self
            j == lastCall.child
            p == coords[i]
        IN  /\ ret.status = "ok"
            /\ ~Isinstance(j) => ret.list = <<FALSE>>
            /\ Isinstance(j) =>
                  LET q == coords[j]
                      close == \A f \in AllFields :
                                  LET d == FSub(p[f], q[f])
                                  IN  /\ FLess(d, Tolerance)
                                      /\ FLess(FSub(Float(0), d), Tolerance)
                  IN  /\ ret.list = <<close>>
                      /\ (/\ At(p, Float(1), Float(2), Float(3))
                          /\ At(q, Frac(10000001, 10000000), Float(2), Float(3))
                          /\ \A f \in OrientationFields : p[f] = q[f]) => ret.list = <<TRUE>>
                      /\ (/\ At(p, Float(1), Float(2), Float(3))
                          /\ At(q, Frac(101, 100), Float(2), Float(3))) => ret.list = <<FALSE>>

\* (1,2,3;1,1,1) has just been compared with a coordinate at the same
\* position whose a is 1.01: not equal
C21_Witness ==
    /\ lastCall.op = "__eq__"
    /\ Isinstance(lastCall.child)
    /\ At(coords[lastCall.self], Float(1), Float(2), Float(3))
    /\ At(coords[lastCall.child], Float(1), Float(2), Float(3))
    /\ coords[lastCall.self].a = Float(1)
    /\ coords[lastCall.child].a = Frac(101, 100)
    /\ ret.list = <<FALSE>>

\* C22: distance_to is the Euclidean distance over x, y, z only: it does
\* not depend on a, b, c of either coordinate, it is symmetric, it is zero
\* from a coordinate to itself, and from (0,0,0) to (3,4,0) it is 5.
C22_EuclideanDistance ==
    lastCall.op = "distance_to" =>
        LET p == coords[lastCall.self]
            q == coords[lastCall.child]
            d == ret.list[1]
            dx == FSub(p.x, q.x)
            dy == FSub(p.y, q.y)
            dz == FSub(p.z, q.z)
        IN  /\ ret.status = "ok"
            /\ d.squared = FAdd(FMul(dx, dx), FAdd(FMul(dy, dy), FMul(dz, dz)))
            /\ \A o1, o2 \in DistanceOrientations \cup {<<0, 0, 0>>} :
                  DistanceTo([p EXCEPT !.a = Float(o1[1]), !.b = Float(o1[2]), !.c = Float(o1[3])],
                             [q EXCEPT !.a = Float(o2[1]), !.b = Float(o2[2]), !.c = Float(o2[3])])
                      = d
            /\ DistanceTo(q, p) = d
            /\ lastCall.self = lastCall.child => IsValue(d, Float(0))
            /\ DistanceTo(p, p) = Sqrt(Float(0))
            /\ (At(p, Float(0), Float(0), Float(0)) /\ At(q, Float(3), Float(4), Float(0)))
                  => IsValue(d, Float(5))

\* the distance from (0,0,0) to (3,4,0) with another orientation has just
\* been computed: 5
C22_Witness ==
    /\ lastCall.op = "distance_to"
    /\ At(coords[lastCall.self], Float(0), Float(0), Float(0))
    /\ At(coords[lastCall.child], Float(3), Float(4), Float(0))
    /\ coords[lastCall.self].a # coords[lastCall.child].a
    /\ IsValue(ret.list[1], Float(5))

----------------------------------------------------------------------------
\* the operations that are not add_child or remove_child
OtherOps ==
    {"move_to", "translate", "set_orientation", "set_field", "set_visible", "set_locked",
     "set_property", "get_children", "get_parent", "get_root", "get_ancestors",
     "get_descendants", "get_absolute_coordinate"}

\* the fields fs of every node's local coordinate are after the step what
\* they were before
SameFields(fs) ==
    \A n \in alive : \A f \in fs : coords'[coordinate'[n]][f] = coords[coordinate[n]][f]

\* C23: hierarchy membership changes only through add_child and
\* remove_child.  move_to, translate, set_orientation, the x/y/z/a/b/c
\* setters, set_visible, set_locked, set_property and every getter leave
\* every parent reference and child list unchanged; move_to and translate
\* leave the orientation fields unchanged, set_orientation the position
\* fields.
C23_MembershipFrame ==
    [][/\ lastCall'.op \in OtherOps => (parent' = parent /\ children' = children)
       /\ lastCall'.op \in {"move_to", "translate"} => SameFields(OrientationFields)
       /\ lastCall'.op = "set_orientation" => SameFields(PositionFields)
       /\ (parent' # parent \/ children' # children) =>
              lastCall'.op \in {"add_child", "remove_child"}]_vars

\* set_orientation(2, 2, 2) has just been called on a node with a parent:
\* the node is still its parent's child at (1, 2, 3)
C23_Witness ==
    /\ lastCall.op = "set_orientation"
    /\ parent[lastCall.self] # None
    /\ InList(children[parent[lastCall.self]], lastCall.self)
    /\ At(Local(lastCall.self), Float(1), Float(2), Float(3))
    /\ Local(lastCall.self).a = Float(2)

\* C24: set_visible(v) and set_locked(v) change only the receiver's own
\* flag: is_visible() / is_locked() then return v, no other field of the
\* node changes, and no flag of any other node (ancestor, descendant or
\* unrelated) changes.
C24_FlagSetters ==
    [][\A n \in alive :
          /\ (lastCall'.op = "set_visible" /\ lastCall'.self = n) =>
                /\ IsVisible(n)' = lastCall'.arg
                /\ visible' = [visible EXCEPT ![n] = lastCall'.arg]
                /\ UNCHANGED <<locked, parent, children, alive, coordVars, name, ident,
                               properties, props, objs>>
          /\ (lastCall'.op = "set_locked" /\ lastCall'.self = n) =>
                /\ IsLocked(n)' = lastCall'.arg
                /\ locked' = [locked EXCEPT ![n] = lastCall'.arg]
                /\ UNCHANGED <<visible, parent, children, alive, coordVars, name, ident,
                               properties, props, objs>>]_vars

\* set_visible(False) has just been called on the parent of a node: the
\* parent is hidden, the child is not
C24_Witness ==
    /\ lastCall.op = "set_visible"
    /\ lastCall.arg = FALSE
    /\ ~IsVisible(lastCall.self)
    /\ children[lastCall.self] # <<>>
    /\ \A i \in 1..Len(children[lastCall.self]) :
          /\ children[lastCall.self][i] # lastCall.self
          /\ IsVisible(children[lastCall.self][i])

\* C28: the locked flag gates no mutation.  On a locked node move_to,
\* translate, set_orientation, set_property and set_visible, and add_child
\* (with the locked node as parent or as child) and remove_child, have the
\* effect they have on any node.
C28_LockGatesNothing ==
    [][\A n \in alive :
          (/\ lastCall'.op \in {"move_to", "translate", "set_orientation", "set_property",
                              "set_visible", "add_child", "remove_child"}
           /\ lastCall'.self = n
           /\ IsLocked(n) \/ (lastCall'.child # None /\ IsLocked(lastCall'.child))) =>
              LET own == coords[coordinate[n]]
                  c   == lastCall'.child
              IN  /\ ret'.status = "ok"
                  /\ lastCall'.op = "move_to" =>
                        LET g == lastCall'.arg
                        IN  coords' = [coords EXCEPT ![coordinate[n]] =
                                [own EXCEPT !.x = Float(g[1]), !.y = Float(g[2]), !.z = Float(g[3])]]
                  /\ lastCall'.op = "translate" =>
                        LET g == lastCall'.arg
                        IN  coords' = [coords EXCEPT ![coordinate[n]] =
                                [own EXCEPT !.x = FAdd(own.x, Float(g[1])),
                                            !.y = FAdd(own.y, Float(g[2])),
                                            !.z = FAdd(own.z, Float(g[3]))]]
                  /\ lastCall'.op = "set_orientation" =>
                        LET g == lastCall'.arg
                        IN  coords' = [coords EXCEPT ![coordinate[n]] =
                                [own EXCEPT !.a = Float(g[1]), !.b = Float(g[2]), !.c = Float(g[3])]]
                  /\ lastCall'.op = "set_property" =>
                        /\ props'[properties[n]][lastCall'.arg] # None
                        /\ objs'[props'[properties[n]][lastCall'.arg]] = <<>>
                  /\ lastCall'.op = "set_visible" => visible'[n] = lastCall'.arg
                  /\ lastCall'.op = "add_child" =>
                        IF InList(children[n], c)
                        THEN parent' = parent /\ children' = children
                        ELSE /\ parent'[c] = n
                             /\ children'[n] = Append(IF parent[c] = n
                                                      THEN ListRemove(children[n], c)
                                                      ELSE children[n], c)
                             /\ (parent[c] \notin {None, n}) =>
                                    children'[parent[c]] = ListRemove(children[parent[c]], c)
                  /\ lastCall'.op = "remove_child" =>
                        IF InList(children[n], c)
                        THEN /\ children'[n] = ListRemove(children[n], c)
                             /\ parent'[c] = None
                        ELSE parent' = parent /\ children' = children]_vars

\* move_to(4, 5, 6) has just been called on a locked node: it is there
C28_Witness ==
    /\ lastCall.op = "move_to"
    /\ IsLocked(lastCall.self)
    /\ lastCall.arg = <<4, 5, 6>>
    /\ At(Local(lastCall.self), Float(4), Float(5), Float(6))

----------------------------------------------------------------------------
\* Callers that never make a node the child of itself or of one of its
\* descendants.

\* a caller that only avoids adding a node to itself
AllowedAdd_NotSelf(self, child) == self # child

\* the receiver is neither the child nor a descendant of the child
AllowedAdd(self, child) == self \notin Subtree(child)

ForestNext ==
    \/ \E self, child \in Node : AllowedAdd(self, child) /\ AddChild(self, child)
    \/ \E self, child \in Node : RemoveChild(self, child)
    \/ \E self \in Node : GetRootCall(self)
    \/ \E self \in Node : GetAncestorsCall(self)
    \/ \E self \in Node : GetDescendantsCall(self)
    \/ \E self \in Node : GetAbsoluteCoordinateCall(self)

SpecForest == Init /\ [][ForestNext]_vars

\* C25: if every add_child(child) call is made on a receiver that is
\* neither child nor a descendant of child, then in every state reached by
\* add_child/remove_child from fresh nodes no node is its own ancestor, and
\* get_root, get_ancestors, get_descendants, get_absolute_coordinate and
\* copy terminate on every node.
C25_ForestPreserved ==
    /\ Acyclic
    /\ \A n \in Node :
          /\ ~OwnAncestor(parent, n)
          /\ GetRoot(n).status = "ok"
          /\ GetAncestors(n).status = "ok"
          /\ GetDescendants(n).status = "ok"
          /\ GetAbsoluteCoordinate(n).status = "ok"
          /\ ~Overflows(n, 1)
    /\ ret.status = "ok"

\* get_root has just returned the grandparent of a node
C25_Witness ==
    /\ lastCall.op = "get_root"
    /\ ret.status = "ok"
    /\ parent[lastCall.self] # None
    /\ parent[parent[lastCall.self]] = ret.node
    /\ ret.node \notin {lastCall.self, parent[lastCall.self]}
    /\ parent[ret.node] = None

\* C26: in single-threaded use add_child and remove_child never raise.
\* After any sequence of calls, self-adds and cycle-forming adds included,
\* every node with a parent is in that parent's child list, so the removal
\* in add_child finds it, and every call has returned normally.
C26_NeverRaises ==
    /\ lastCall.op \in {"add_child", "remove_child"} => ret.status = "ok"
    /\ \A c \in Node : parent[c] # None => InList(children[parent[c]], c)

\* a node that was its own parent has just been moved to another parent
C26_Witness ==
    /\ lastCall.op = "add_child"
    /\ ret.status = "ok"
    /\ lastCall.detached = lastCall.child
    /\ lastCall.self # lastCall.child
    /\ parent[lastCall.child] = lastCall.self
    /\ ~InList(children[lastCall.child], lastCall.child)

----------------------------------------------------------------------------
\* Nodes constructed with and without a coordinate argument.

\* Number of nodes that are constructed or copied.
NumBuilt == 3

\* Number of SolutionCoordinate objects the caller makes and passes on.
NumGiven == 1

\* the coordinate objects made by the caller: SolutionCoordinate(1, 2, 3)
Given == (NumBuilt + 1)..(NumBuilt + NumGiven)

\* a constructor that keeps a copy of the coordinate it is given
Construct_CopiesCoordinate(k) ==
    /\ Pool \ alive # {}
    /\ LET new == NewObject(Heap)
       IN  /\ alive' = alive \cup {new}
           /\ coordinate' = [coordinate EXCEPT ![new] = new]
           /\ coords' = [coords EXCEPT ![new] =
                            IF k # None THEN CoordinateCopy(coords[k])
                            ELSE DefaultCoordinate]
           /\ lastCall' = CallWith("__init__", new, k)
           /\ ret' = Returned(new, <<>>)
           /\ cret' = NoCoord
    /\ UNCHANGED <<parent, children, fieldVars, cloneOf, threads, appVars>>

\* Solution(name, k): self.coordinate = coordinate or SolutionCoordinate()
\* (a SolutionCoordinate is always true: the class has neither __bool__
\* nor __len__); k = None is the call without a coordinate
Construct(k) ==
    /\ Pool \ alive # {}
    /\ LET new == NewObject(Heap)
       IN  /\ alive' = alive \cup {new}
           /\ coordinate' = [coordinate EXCEPT ![new] = IF k # None THEN k ELSE new]
           /\ coords' = IF k # None THEN coords
                        ELSE [coords EXCEPT ![new] = DefaultCoordinate]
           /\ lastCall' = CallWith("__init__", new, k)
           /\ ret' = Returned(new, <<>>)
           /\ cret' = NoCoord
    /\ UNCHANGED <<parent, children, fieldVars, cloneOf, threads, appVars>>

\* no node yet; the caller has made its coordinate objects
ShareInit ==
    /\ parent = [n \in 1..NumBuilt |-> None]
    /\ children = [n \in 1..NumBuilt |-> <<>>]
    /\ lastCall = Call("__init__", None, None, FALSE, None)
    /\ ret = ReturnNone
    /\ alive = {}
    /\ coordinate = [n \in 1..NumBuilt |-> n]
    /\ coords = [k \in 1..(NumBuilt + NumGiven) |->
                    IF k \in Given THEN Coord6(1, 2, 3, 1, 1, 1) ELSE DefaultCoordinate]
    /\ cret = NoCoord
    /\ FreshFields(1..NumBuilt)
    /\ NoApplication

\* the coordinate objects a caller can get hold of
Reachable == Given \cup {coordinate[n] : n \in alive}

\* nodes are constructed and copied, then one node is moved or turned
ShareNext ==
    /\ lastCall.op \in {"__init__", "copy"}
    /\ \/ \E k \in Reachable \cup {None} : Construct(k)
       \/ \E self \in alive : Copy(self)
       \/ \E self \in alive, p \in Positions : MoveTo(self, p[1], p[2], p[3])
       \/ \E self \in alive, d \in Deltas : Translate(self, d[1], d[2], d[3])
       \/ \E self \in alive, o \in Orientations : SetOrientation(self, o[1], o[2], o[3])

SpecShare == ShareInit /\ [][ShareNext]_vars

\* the coordinate k after the call op with the arguments arg
Moved(op, arg, k) ==
    CASE op = "move_to" ->
            [k EXCEPT !.x = Float(arg[1]), !.y = Float(arg[2]), !.z = Float(arg[3])]
      [] op = "translate" ->
            [k EXCEPT !.x = FAdd(@, Float(arg[1])), !.y = FAdd(@, Float(arg[2])),
                      !.z = FAdd(@, Float(arg[3]))]
      [] op = "set_orientation" ->
            [k EXCEPT !.a = Float(arg[1]), !.b = Float(arg[2]), !.c = Float(arg[3])]

\* C27: a node stores the coordinate passed to its constructor by
\* reference: the node built with a coordinate object holds that very
\* object, so move_to, translate or set_orientation on one node changes the
\* local coordinate of every node built with the same object and of no
\* other; a node built without a coordinate and a node made by copy() hold
\* an object that no other node and no caller held before.
C27_CoordinateByReference ==
    [][ /\ (lastCall'.op = "__init__" /\ lastCall'.arg # None)
            => coordinate'[ret'.node] = lastCall'.arg
        /\ (\/ lastCall'.op = "__init__" /\ lastCall'.arg = None
            \/ lastCall'.op = "copy" /\ ret'.status = "ok")
            => /\ coordinate'[ret'.node] \notin Reachable
               /\ \A m \in alive' \ {ret'.node} :
                     coordinate'[m] # coordinate'[ret'.node]
        /\ lastCall'.op \in {"move_to", "translate", "set_orientation"}
            => /\ coordinate' = coordinate
               /\ \A n \in alive :
                     coords'[coordinate[n]] =
                        IF coordinate[n] = coordinate[lastCall'.self]
                        THEN Moved(lastCall'.op, lastCall'.arg, Local(n))
                        ELSE Local(n)
      ]_vars

\* a node built with the coordinate object of another has moved with it,
\* while the copy made of it before has stayed
C27_Witness ==
    /\ lastCall.op \in {"move_to", "translate"}
    /\ \E n, c \in alive \ {lastCall.self} :
          /\ coordinate[n] = coordinate[lastCall.self]
          /\ coordinate[n] \in Given
          /\ Local(n) # Coord6(1, 2, 3, 1, 1, 1)
          /\ cloneOf[c] = lastCall.self
          /\ Local(c) = Coord6(1, 2, 3, 1, 1, 1)

----------------------------------------------------------------------------
\* The JSON project: SolutionJSONEncoder.project_to_dict and
\* SolutionJSONDecoder.dict_to_project.

FORMAT_NAME == "TheSolution_JSON"
JSON_VERSION == "1.0"

\* Longest list of solutions a project is made of.
MaxSolutions == 2

\* Python values: a string, a list, a tuple, a dict (its values in key order)
PyStr(str) == [kind |-> "str", items |-> <<str>>]
PyList(lst) == [kind |-> "list", items |-> lst]
PyTuple(lst) == [kind |-> "tuple", items |-> lst]
PyDict(lst) == [kind |-> "dict", items |-> lst]

\* the JSON text of a value: a list and a tuple are both written as an array
Json(v) == [v EXCEPT !.kind = IF @ = "tuple" THEN "list" ELSE @]

\* json.dumps(d, sort_keys=True, separators=(',', ':')): the order in which
\* the keys were inserted does not show
JsonDumps(d) == [k \in DOMAIN d |-> Json(d[k])]

\* hashlib.sha256(text.encode()).hexdigest(): equal digests for equal texts
\* only
Sha256(text) == [sha256 |-> text]

\* the objects a project is made of: a SolutionCoordinate and an object
\* the encoder does not know
SolutionObjects == {"coordinate", "other"}

\* the metadata argument: None, or a dict with a name
Metadatas == {"", "bracket"}

\* datetime.now().isoformat()
Times == {"2025-01-01T10:00:00", "2025-01-01T10:00:01"}

\* SolutionJSONEncoder.solution_to_dict(solution)
SolutionToDict(solution) ==
    IF solution = "coordinate"
    THEN [type |-> "SolutionCoordinate", data |-> "1.0"]
    ELSE [type |-> "Unknown", data |-> "other"]

\* SolutionJSONDecoder.dict_to_solution(data): None for an unknown type
DictToSolution(data) ==
    IF data.type = "SolutionCoordinate" THEN <<[x |-> data.data]>> ELSE <<>>

\* for solution_data in solutions_data: the solutions that could be made
RECURSIVE ConvertSolutions(_)
ConvertSolutions(solutions_data) ==
    IF solutions_data = <<>> THEN <<>>
    ELSE DictToSolution(Head(solutions_data)) \o ConvertSolutions(Tail(solutions_data))

\* the warnings dict_to_solution logs on the way
RECURSIVE ConvertWarnings(_)
ConvertWarnings(solutions_data) ==
    IF solutions_data = <<>> THEN <<>>
    ELSE (IF Head(solutions_data).type = "SolutionCoordinate" THEN <<>>
          ELSE <<"Unknown solution type">>) \o ConvertWarnings(Tail(solutions_data))

\* the project structure before the checksum is added
ProjectData(solutions, metadata, now) ==
    LET solutions_data == [i \in 1..Len(solutions) |-> SolutionToDict(solutions[i])]
    IN  [format |-> PyStr(FORMAT_NAME),
         version |-> PyStr(JSON_VERSION),
         created_at |-> PyStr(now),
         metadata |-> PyDict(<<IF metadata = "" THEN "TheSolution Project" ELSE metadata,
                               Len(solutions_data)>>),
         solutions |-> PyList(solutions_data)]

\* a dictionary with the checksum of its own JSON text
WithChecksum(project_data) ==
    project_data @@ ("checksum" :> PyStr(Sha256(JsonDumps(project_data))))

\* SolutionJSONEncoder.project_to_dict(solutions, metadata)
ProjectToDict(solutions, metadata, now) ==
    /\ lastCall.op = "__init__"
    /\ project' = WithChecksum(ProjectData(solutions, metadata, now))
    /\ lastCall' = CallWith("project_to_dict", None, <<>>)
    /\ ret' = ReturnNone
    /\ UNCHANGED <<parent, children, cret, alive, coordVars, fieldVars, cloneOf, threads,
                   logged, object_counter, objects, creation_threads, events,
                   object_tree, deleted>>

\* a digest that is not the one of the project
OtherDigest == Sha256([format |-> PyStr("")])

\* the values a field of the dictionary is replaced with
Replacements(d, key) ==
    CASE key = "format" -> {PyStr("Other_JSON")}
      [] key = "version" -> {PyStr("2.0")}
      [] key = "created_at" -> {PyStr(t) : t \in Times}
      [] key = "metadata" -> {PyDict(<<"tampered", d.metadata.items[2]>>)}
      [] key = "solutions" -> {PyTuple(d.solutions.items), PyList(<<>>),
                               PyList(<<[type |-> "SolutionCoordinate", data |-> "9.0"]>>)}
      [] key = "checksum" -> {PyStr(OtherDigest)}

\* d[key] = value, on the dictionary project_to_dict has returned
Change(key, value) ==
    /\ lastCall.op = "project_to_dict"
    /\ key \in DOMAIN project
    /\ value # project[key]
    /\ project' = [project EXCEPT ![key] = value]
    /\ lastCall' = CallWith("change", None, [key |-> key, was |-> project[key]])
    /\ ret' = ReturnNone
    /\ UNCHANGED <<parent, children, cret, alive, coordVars, fieldVars, cloneOf, threads,
                   logged, object_counter, objects, creation_threads, events,
                   object_tree, deleted>>

\* the dictionaries a project file can hold: any format and version, with
\* the right checksum, a wrong one, or none
Written ==
    LET bodies == {[ProjectData(<<s>>, "", t) EXCEPT !.format = PyStr(f), !.version = PyStr(v)] :
                      s \in SolutionObjects, t \in Times,
                      f \in {FORMAT_NAME, "Other_JSON"}, v \in {JSON_VERSION, "2.0"}}
    IN  bodies \cup {WithChecksum(b) : b \in bodies}
               \cup {b @@ ("checksum" :> PyStr(OtherDigest)) : b \in bodies}

\* project_data = json.load(f)
JsonLoad(d) ==
    /\ lastCall.op = "__init__"
    /\ project' = d
    /\ lastCall' = CallWith("json.load", None, <<>>)
    /\ ret' = ReturnNone
    /\ UNCHANGED <<parent, children, cret, alive, coordVars, fieldVars, cloneOf, threads,
                   logged, object_counter, objects, creation_threads, events,
                   object_tree, deleted>>

\* the stored checksum is not the digest of the rest of the dictionary
ChecksumFails(data) ==
    /\ "checksum" \in DOMAIN data
    /\ LET project_copy == [k \in DOMAIN data \ {"checksum"} |-> data[k]]
           stored_checksum == data["checksum"]
           calculated_checksum == PyStr(Sha256(JsonDumps(project_copy)))
       IN  stored_checksum # calculated_checksum

\* the warning for a version that is not JSON_VERSION
VersionWarning(data) ==
    IF "version" \notin DOMAIN data \/ data["version"] # PyStr(JSON_VERSION)
    THEN <<"Version mismatch">> ELSE <<>>

\* dict_to_project that turns down a project of another version
DictToProject_RejectsVersion ==
    /\ lastCall.op \in {"project_to_dict", "change", "json.load"}
    /\ lastCall' = CallWith("dict_to_project", None, <<>>)
    /\ LET data == project
       IN  IF "format" \notin DOMAIN data \/ data["format"] # PyStr(FORMAT_NAME)
           THEN /\ logged' = <<"Error loading project: Invalid format">>
                /\ ret' = Returned(None, <<>>)
           ELSE IF VersionWarning(data) # <<>>
           THEN /\ logged' = <<"Error loading project: Version mismatch">>
                /\ ret' = Returned(None, <<>>)
           ELSE IF ChecksumFails(data)
           THEN /\ logged' = <<"Error loading project: Checksum validation failed">>
                /\ ret' = Returned(None, <<>>)
           ELSE LET solutions_data ==
                        IF "solutions" \in DOMAIN data THEN data["solutions"].items ELSE <<>>
                IN  /\ logged' = ConvertWarnings(solutions_data)
                    /\ ret' = Returned(None, ConvertSolutions(solutions_data))
    /\ UNCHANGED <<parent, children, cret, alive, coordVars, fieldVars, cloneOf, threads,
                   project, object_counter, objects, creation_threads, events,
                   object_tree, deleted>>

\* SolutionJSONDecoder.dict_to_project(data): every exception is logged and
\* answered with the empty list
DictToProject ==
    /\ lastCall.op \in {"project_to_dict", "change", "json.load"}
    /\ lastCall' = CallWith("dict_to_project", None, <<>>)
    /\ LET data == project
       IN  IF "format" \notin DOMAIN data \/ data["format"] # PyStr(FORMAT_NAME)
           THEN /\ logged' = <<"Error loading project: Invalid format">>
                /\ ret' = Returned(None, <<>>)
           ELSE IF ChecksumFails(data)
           THEN /\ logged' = VersionWarning(data)
                                \o <<"Error loading project: Checksum validation failed">>
                /\ ret' = Returned(None, <<>>)
           ELSE LET solutions_data ==
                        IF "solutions" \in DOMAIN data THEN data["solutions"].items ELSE <<>>
                IN  /\ logged' = VersionWarning(data) \o ConvertWarnings(solutions_data)
                    /\ ret' = Returned(None, ConvertSolutions(solutions_data))
    /\ UNCHANGED <<parent, children, cret, alive, coordVars, fieldVars, cloneOf, threads,
                   project, object_counter, objects, creation_threads, events,
                   object_tree, deleted>>

\* lists of at most n of the objects
SolutionLists(n) == UNION {[1..k -> SolutionObjects] : k \in 0..n}

ProjectNext ==
    \/ \E solutions \in SolutionLists(MaxSolutions), metadata \in Metadatas, now \in Times :
          ProjectToDict(solutions, metadata, now)
    \/ \E key \in DOMAIN project : \E value \in Replacements(project, key) :
          Change(key, value)
    \/ \E d \in Written : JsonLoad(d)
    \/ DictToProject

SpecProject == Init /\ [][ProjectNext]_vars

\* the call was turned down: an error is logged and the list is empty
Rejected(log, result) ==
    /\ result.list = <<>>
    /\ \E i \in 1..Len(log) :
          log[i] \in {"Error loading project: Invalid format",
                      "Error loading project: Checksum validation failed"}

\* the call came through: no error is logged and the solutions of the
\* dictionary are returned
Accepted(log, result) ==
    /\ \A i \in 1..Len(log) : log[i] \in {"Version mismatch", "Unknown solution type"}
    /\ result.list = ConvertSolutions(project.solutions.items)

\* C29 as stated: a dictionary made by project_to_dict passes; after a
\* change of any one field, the checksum included, dict_to_project returns
\* the empty list; another format returns the empty list; another version
\* alone does not.
C29_ChecksumProtects ==
    [][ lastCall'.op = "dict_to_project" =>
          /\ lastCall.op = "project_to_dict" => Accepted(logged', ret')
          /\ lastCall.op = "change" => ret'.list = <<>>
          /\ project.format # PyStr(FORMAT_NAME) => Rejected(logged', ret')
          /\ (/\ project.format = PyStr(FORMAT_NAME)
              /\ project.version # PyStr(JSON_VERSION)
              /\ ~ChecksumFails(project))
                => Accepted(logged', ret')
      ]_vars

\* C29, amended: a dictionary made by project_to_dict passes; after a
\* change of one field that changes the JSON text of the dictionary, or a
\* change of the checksum, dict_to_project logs an error and returns the
\* empty list, and after a change that leaves the JSON text as it was the
\* dictionary still passes; another format is turned down; another version
\* alone is not.
C29_ChecksumProtectsJsonText ==
    [][ lastCall'.op = "dict_to_project" =>
          /\ lastCall.op = "project_to_dict" => Accepted(logged', ret')
          /\ lastCall.op = "change" =>
                IF Json(project[lastCall.arg.key]) # Json(lastCall.arg.was)
                THEN Rejected(logged', ret')
                ELSE Accepted(logged', ret')
          /\ project.format # PyStr(FORMAT_NAME) => Rejected(logged', ret')
          /\ (/\ project.format = PyStr(FORMAT_NAME)
              /\ project.version # PyStr(JSON_VERSION)
              /\ ~ChecksumFails(project))
                => /\ Accepted(logged', ret')
                   /\ logged'[1] = "Version mismatch"
      ]_vars

\* a project whose list of solutions was replaced by the tuple of the same
\* solutions has been loaded, solutions and all
C29_Witness ==
    /\ lastCall.op = "dict_to_project"
    /\ project.solutions.kind = "tuple"
    /\ project.version = PyStr(JSON_VERSION)
    /\ "checksum" \in DOMAIN project
    /\ ret.list # <<>>
    /\ logged = <<>>

----------------------------------------------------------------------------
\* The 3D-Solution window: create_object, the ObjectCreationThread workers,
\* the slots their signals are delivered to, and delete_selected_object.

\* Number of create_object requests followed.
MaxObjects == 3

\* SolutionType values the create buttons pass
ObjectTypes == {"box", "sphere"}

\* what the window and the project code never write
windowFrame == <<parent, children, cret, alive, coordVars, fieldVars, cloneOf, threads,
                 project, logged>>

\* self.create_object(obj_type): the counter is advanced, the object data
\* carry the new number, a worker thread is made, appended and started
CreateObject(obj_type) ==
    /\ object_counter < MaxObjects
    /\ object_counter' = object_counter + 1
    /\ LET object_data == [id |-> object_counter', name |-> <<obj_type, object_counter'>>,
                           type |-> obj_type, volume |-> FALSE]
       IN  creation_threads' = Append(creation_threads,
                                      [object_data |-> object_data, pc |-> "started"])
    /\ lastCall' = CallWith("create_object", None, object_counter')
    /\ ret' = ReturnNone
    /\ UNCHANGED <<objects, events, object_tree, deleted, windowFrame>>

\* ObjectCreationThread.run() of worker t: it fills its own object_data and
\* emits object_created, or emits creation_failed; the signal is queued for
\* the thread of the window
Run(t, created) ==
    /\ creation_threads[t].pc = "started"
    /\ creation_threads' =
          [creation_threads EXCEPT ![t] =
              IF created THEN [object_data |-> [@.object_data EXCEPT !.volume = TRUE],
                               pc |-> "object_created"]
              ELSE [@ EXCEPT !.pc = "creation_failed"]]
    /\ events' = Append(events, [signal |-> creation_threads'[t].pc, thread |-> t])
    /\ lastCall' = CallWith("run", None, t)
    /\ ret' = ReturnNone
    /\ UNCHANGED <<object_counter, objects, object_tree, deleted, windowFrame>>

\* self.on_object_created(object_data)
OnObjectCreated ==
    /\ events # <<>>
    /\ Head(events).signal = "object_created"
    /\ LET object_data == creation_threads[Head(events).thread].object_data
       IN  /\ objects' = [k \in DOMAIN objects \cup {object_data.id} |->
                             IF k = object_data.id THEN object_data ELSE objects[k]]
           /\ object_tree' = Append(object_tree, [name |-> object_data.name,
                                                  type |-> object_data.type,
                                                  id |-> object_data.id])
           /\ lastCall' = CallWith("on_object_created", None, object_data.id)
    /\ events' = Tail(events)
    /\ ret' = ReturnNone
    /\ UNCHANGED <<object_counter, creation_threads, deleted, windowFrame>>

\* on_creation_failed that gives the number of the failed object back
OnCreationFailed_ReleasesId ==
    /\ events # <<>>
    /\ Head(events).signal = "creation_failed"
    /\ events' = Tail(events)
    /\ object_counter' = object_counter - 1
    /\ lastCall' = CallWith("on_creation_failed", None, Head(events).thread)
    /\ ret' = ReturnNone
    /\ UNCHANGED <<objects, creation_threads, object_tree, deleted, windowFrame>>

\* self.on_creation_failed(error_message): a message, nothing else
OnCreationFailed ==
    /\ events # <<>>
    /\ Head(events).signal = "creation_failed"
    /\ events' = Tail(events)
    /\ lastCall' = CallWith("on_creation_failed", None, Head(events).thread)
    /\ ret' = ReturnNone
    /\ UNCHANGED <<object_counter, objects, creation_threads, object_tree, deleted,
                   windowFrame>>

\* self.delete_selected_object() with item i of the tree selected, or with
\* no item selected (i = 0)
DeleteSelectedObject(i) ==
    /\ lastCall' = CallWith("delete_selected_object", None, i)
    /\ ret' = ReturnNone
    /\ IF i = 0
       THEN UNCHANGED <<objects, object_tree, deleted>>
       ELSE LET object_id == object_tree[i].id
            IN  /\ objects' = [k \in DOMAIN objects \ {object_id} |-> objects[k]]
                /\ object_tree' = [j \in 1..(Len(object_tree) - 1) |->
                                      IF j < i THEN object_tree[j] ELSE object_tree[j + 1]]
                /\ deleted' = deleted \cup {object_id}
    /\ UNCHANGED <<object_counter, creation_threads, events, windowFrame>>

WindowNext ==
    \/ \E obj_type \in ObjectTypes : CreateObject(obj_type)
    \/ \E t \in DOMAIN creation_threads, created \in BOOLEAN : Run(t, created)
    \/ OnObjectCreated
    \/ OnCreationFailed
    \/ \E i \in 0..Len(object_tree) : DeleteSelectedObject(i)

SpecWindow == Init /\ [][WindowNext]_vars

\* the numbers create_object has handed out, in the order of the calls
HandedOut == [t \in DOMAIN creation_threads |-> creation_threads[t].object_data.id]

\* C30: under any interleaving of create_object, worker completions and
\* delete_selected_object, the identifiers handed out are strictly
\* increasing and never reused, also after deletions and failed creations;
\* objects is written only by on_object_created and delete_selected_object;
\* and every objects[k] is a record with id k of a creation that completed
\* with object_created and has not been deleted since.
C30_ObjectIdentifiers ==
    [][ /\ \A i, j \in DOMAIN HandedOut' : i < j => HandedOut'[i] < HandedOut'[j]
        /\ lastCall'.op = "create_object" =>
              /\ lastCall'.arg = object_counter'
              /\ HandedOut'[Len(HandedOut')] = lastCall'.arg
              /\ lastCall'.arg \notin DOMAIN objects \cup deleted
        /\ objects' # objects =>
              lastCall'.op \in {"on_object_created", "delete_selected_object"}
        /\ \A k \in DOMAIN objects' :
              /\ objects'[k].id = k
              /\ k \notin deleted'
              /\ \E t \in DOMAIN creation_threads' :
                    /\ creation_threads'[t].pc = "object_created"
                    /\ creation_threads'[t].object_data = objects'[k]
      ]_vars

\* a request made after a failed creation and a deletion has its object
\* in the dictionary, under a number not used before
C30_Witness ==
    /\ lastCall.op = "on_object_created"
    /\ deleted # {}
    /\ \E t \in DOMAIN creation_threads : creation_threads[t].pc = "creation_failed"
    /\ lastCall.arg \in DOMAIN objects
    /\ \A k \in deleted : k < lastCall.arg
    /\ \A t \in DOMAIN creation_threads :
          creation_threads[t].pc = "creation_failed"
             => creation_threads[t].object_data.id < lastCall.arg

==============================================================================
